---- MODULE Spec2Model ----
(***************************************************************************)
(* Model of the wintergreen academy backend: branch-scoped access control, *)
(* session resolution, course enrollment counters, student id generation   *)
(* and attendance upserts.  Every request handler is one atomic action     *)
(* (requests are served one at a time), except in SpecRace, which follows  *)
(* two student creations from one await to the next.                      *)
(* Strings that the code inspects character by character (course titles,   *)
(* student ids) are sequences of one-character strings.                    *)
(***************************************************************************)
EXTENDS Integers, Sequences, FiniteSets, TLC

\* ------------------------------------------------------------------ bounds
MaxSeats == 2          \* largest maxStudents a course is created with
MaxStudentRecs == 3    \* number of Student documents ever inserted
MaxAttRecs == 3        \* number of Attendance documents ever inserted
MaxBatch == 2          \* length of a bulk attendance batch
MaxTokens == 1         \* number of tokens issued by login
MaxTicks == 1          \* number of times the clock advances by itself
MaxTxRecs == 3         \* number of Transaction documents ever inserted

None == "none"

BranchIds == {"b1", "b2"}
CourseIds == {"c1", "c2", "c3"}
UserIds == {"u1", "u2", "u3", "u4", "u5"}
Roles == {"superAdmin", "admin", "moderator", "staff"}
Emails == {"e1", "e2"}

\* ------------------------------------------------------- string helpers
LowerSeq == <<"a","b","c","d","e","f","g","h","i","j","k","l","m",
              "n","o","p","q","r","s","t","u","v","w","x","y","z">>
UpperSeq == <<"A","B","C","D","E","F","G","H","I","J","K","L","M",
              "N","O","P","Q","R","S","T","U","V","W","X","Y","Z">>
DigitSeq == <<"0","1","2","3","4","5","6","7","8","9">>

\* /[0-9]/.test(ch)
isDigit(ch) == \E i \in 1..10 : DigitSeq[i] = ch

\* ch.charCodeAt(0) for the characters used here
charCode(ch) ==
  IF isDigit(ch) THEN 47 + (CHOOSE i \in 1..10 : DigitSeq[i] = ch)
  ELSE IF \E i \in 1..26 : UpperSeq[i] = ch
  THEN 64 + (CHOOSE i \in 1..26 : UpperSeq[i] = ch)
  ELSE IF \E i \in 1..26 : LowerSeq[i] = ch
  THEN 96 + (CHOOSE i \in 1..26 : LowerSeq[i] = ch)
  ELSE 32

\* /^[A-Za-z]/.test(word)
isAlpha(ch) == \E i \in 1..26 : LowerSeq[i] = ch \/ UpperSeq[i] = ch

\* String.prototype.toUpperCase on one character
toUpperCase(ch) ==
  IF \E i \in 1..26 : LowerSeq[i] = ch
  THEN UpperSeq[CHOOSE i \in 1..26 : LowerSeq[i] = ch]
  ELSE ch

\* title.split(' '): cur is the word read so far
RECURSIVE split(_, _)
split(s, cur) ==
  IF s = <<>> THEN <<cur>>
  ELSE IF Head(s) = " " THEN <<cur>> \o split(Tail(s), <<>>)
  ELSE split(Tail(s), Append(cur, Head(s)))

\* the for-loop over words without the test of the first character
RECURSIVE initialsOfEveryWord(_)
initialsOfEveryWord(words) ==
  IF words = <<>> THEN <<>>
  ELSE (IF Len(Head(words)) > 0
        THEN <<toUpperCase(Head(words)[1])>>
        ELSE <<>>) \o initialsOfEveryWord(Tail(words))

\* the for-loop over words collecting upper-cased initials
RECURSIVE initials(_)
initials(words) ==
  IF words = <<>> THEN <<>>
  ELSE (IF Len(Head(words)) > 0 /\ isAlpha(Head(words)[1])
        THEN <<toUpperCase(Head(words)[1])>>
        ELSE <<>>) \o initials(Tail(words))

\* prefix.substring(0, n)
substring0(s, n) == SubSeq(s, 1, IF Len(s) < n THEN Len(s) ELSE n)

\* String(n) for n >= 0
RECURSIVE String(_)
String(n) ==
  IF n < 10 THEN <<DigitSeq[n + 1]>>
  ELSE String(n \div 10) \o <<DigitSeq[(n % 10) + 1]>>

\* s.padStart(width, '0')
RECURSIVE padStart(_, _)
padStart(s, width) ==
  IF Len(s) >= width THEN s ELSE padStart(<<"0">> \o s, width)

\* studentSchema.statics.generateStudentId, given the course document
generateStudentId(course) ==
  LET found == initials(split(course.title, <<>>))
      prefix == substring0(IF Len(found) = 0 THEN <<"S","T","U">> ELSE found, 6)
      nextNumber == course.currentEnrolled + 1
  IN prefix \o padStart(String(nextNumber), 4)

\* course titles used by the model
TitleWebDev == <<"w","e","b"," ","d","e","v">>
TitleWebDesign == <<"W","e","b"," "," ","D","e","s","i","g","n">>
Title3dArt == <<"3","d"," ","a","r","t">>

\* ------------------------------------------------------------ variables
VARIABLES
  branches,     \* Branch collection: id -> [isActive]
  users,        \* User collection: id -> [exists, role, branch, isActive, lastLogin]
  courses,      \* Course collection: id -> [title, branch, maxStudents, currentEnrolled, isActive]
  students,     \* Student collection: sequence of documents, _id = index
  attendance,   \* Attendance collection: sequence of documents, _id = index
  transactions, \* Transaction collection: id -> document
  budgets,      \* Budget collection: id -> document
  tokens,       \* tokens issued by login: set of payloads
  clock,        \* the time: it advances with every login and with Tick
  omitUndefined, \* whether the update caster drops keys whose value is undefined
  requests,     \* student creations in flight: process -> position and what it has read
  resp          \* response to the last request

vars == <<branches, users, courses, students, attendance, transactions,
          budgets, tokens, clock, omitUndefined, requests, resp>>

\* ------------------------------------------------------ session / roles
\* authenticateToken: the checks made on the user document loaded for a token
authenticateToken(uid) ==
  IF ~users[uid].exists \/ ~users[uid].isActive THEN "InvalidToken"
  ELSE IF users[uid].role # "superAdmin"
          /\ (users[uid].branch = None \/ ~branches[users[uid].branch].isActive)
       THEN "InvalidToken"
  ELSE "ok"

\* requireRole(...roles)
requireRole(uid, roles) == users[uid].role \in roles

\* --------------------------------------------------------------- Course
\* courseSchema.methods.isFull
isFullOffByOne(course) == course.currentEnrolled > course.maxStudents

isFull(course) == course.currentEnrolled >= course.maxStudents

\* Course.enrollStudent on a loaded document: [thrown, doc]
enrollStudent(course) ==
  IF isFull(course) THEN [thrown |-> TRUE, doc |-> course]
  ELSE [thrown |-> FALSE,
        doc |-> [course EXCEPT !.currentEnrolled = course.currentEnrolled + 1]]

\* Course.unenrollStudent on a loaded document: [thrown, doc]
unenrollStudentNoFloor(course) ==
  [thrown |-> FALSE,
   doc |-> [course EXCEPT !.currentEnrolled = course.currentEnrolled - 1]]

unenrollStudent(course) ==
  IF course.currentEnrolled <= 0 THEN [thrown |-> TRUE, doc |-> course]
  ELSE [thrown |-> FALSE,
        doc |-> [course EXCEPT !.currentEnrolled = course.currentEnrolled - 1]]

\* Course.findById / Branch.findById: model.findById(id) is null exactly when
\* the id names no document (documents are never hard-deleted)
UnknownId == "unknown"
\* the slot of a course that POST /api/courses has not created yet
NoCourse ==
  [title |-> <<>>, branch |-> "all", maxStudents |-> 0, currentEnrolled |-> 0,
   isActive |-> FALSE]

\* Course.findById(cid) finds no document
courseMissing(cid) == cid \notin CourseIds \/ courses[cid] = NoCourse
branchMissing(bid) == bid \notin BranchIds

\* ------------------------------------------------------------- Student
\* outcome of a student handler: the collections it leaves and its answer
Outcome(st, co, kind, key) ==
  [students |-> st, courses |-> co, kind |-> kind, key |-> key]

\* a studentId without its unique index
studentIdNeverTaken(st, studentId, self) == FALSE

\* the unique index on studentId, checked by save() of document number self
\* (self = 0 for an insert)
studentIdTaken(st, studentId, self) ==
  \E i \in 1..Len(st) : i # self /\ st[i].studentId = studentId

\* Student.findOne({ email, isActive: true, _id: { $ne: self } })
emailInUse(st, email, self) ==
  \E i \in 1..Len(st) : i # self /\ st[i].email = email /\ st[i].isActive

\* POST /api/students
createStudent(uid, body) ==
  LET me == users[uid]
      fail(kind, key) == Outcome(students, courses, kind, key)
      targetBranchId == IF me.role # "superAdmin" THEN me.branch ELSE body.branch
      course == courses[body.course]
  IN
  IF ~requireRole(uid, {"superAdmin", "admin", "moderator"})
    THEN fail("AccessDenied", None)
  ELSE IF me.role # "superAdmin" /\ body.branch # None /\ body.branch # targetBranchId
    THEN fail("AccessDenied", None)
  ELSE IF branchMissing(targetBranchId) \/ ~branches[targetBranchId].isActive
    THEN fail("InvalidReference", "branch")
  ELSE IF courseMissing(body.course) \/ ~course.isActive
    THEN fail("InvalidReference", "course")
  ELSE IF me.role # "superAdmin" /\ course.branch # "all" /\ course.branch # me.branch
    THEN fail("InvalidReference", "course")
  ELSE IF isFull(course)
    THEN fail("CourseFull", None)
  ELSE IF emailInUse(students, body.email, 0)
    THEN fail("DuplicateKey", "email")
  ELSE
    LET studentId == generateStudentId(course)
        doc == [studentId |-> studentId, email |-> body.email,
                course |-> body.course, branch |-> targetBranchId,
                isActive |-> TRUE]
        saved == Append(students, doc)
        enrolled == enrollStudent(course)
    IN IF studentIdTaken(students, studentId, 0)
         THEN fail("DuplicateKey", "studentId")
       ELSE IF enrolled.thrown
         THEN Outcome(saved, courses, "ServerError", None)
       ELSE Outcome(saved, [courses EXCEPT ![body.course] = enrolled.doc], "ok", None)

\* PUT /api/students/:id
updateStudent(uid, sid, body) ==
  LET me == users[uid]
      fail(kind, key) == Outcome(students, courses, kind, key)
  IN
  IF ~requireRole(uid, {"superAdmin", "admin", "moderator"})
    THEN fail("AccessDenied", None)
  ELSE IF sid > Len(students) \/ ~students[sid].isActive
    THEN fail("NotFound", None)
  ELSE
    LET student == students[sid]
        wantsChange == body.course # None /\ body.course # student.course
        newCourse == courses[body.course]
    IN
    IF me.role # "superAdmin" /\ student.branch # me.branch
      THEN fail("AccessDenied", None)
    ELSE IF wantsChange /\ (courseMissing(body.course) \/ ~newCourse.isActive)
      THEN fail("InvalidReference", "course")
    ELSE IF wantsChange /\ me.role # "superAdmin"
            /\ newCourse.branch # "all" /\ newCourse.branch # me.branch
      THEN fail("InvalidReference", "course")
    ELSE IF wantsChange /\ isFull(newCourse)
      THEN fail("CourseFull", None)
    ELSE IF body.email # None /\ body.email # student.email
            /\ emailInUse(students, body.email, sid)
      THEN fail("DuplicateKey", "email")
    ELSE
      LET withEmail == IF body.email # None
                       THEN [student EXCEPT !.email = body.email]
                       ELSE student
      IN
      IF ~wantsChange
        THEN Outcome([students EXCEPT ![sid] = withEmail], courses, "ok", None)
      ELSE
        LET oldCourse == courses[student.course]
            moved == [withEmail EXCEPT !.studentId = generateStudentId(newCourse),
                                       !.course = body.course]
            unenrolled == unenrollStudent(oldCourse)
            afterOld == [courses EXCEPT ![student.course] = unenrolled.doc]
            enrolled == enrollStudent(newCourse)
            afterNew == [afterOld EXCEPT ![body.course] = enrolled.doc]
        IN IF unenrolled.thrown
             THEN fail("ServerError", None)
           ELSE IF enrolled.thrown
             THEN Outcome(students, afterOld, "ServerError", None)
           ELSE IF studentIdTaken(students, moved.studentId, sid)
             THEN Outcome(students, afterNew, "DuplicateKey", "studentId")
           ELSE Outcome([students EXCEPT ![sid] = moved], afterNew, "ok", None)

\* DELETE /api/students/:id
deleteStudent(uid, sid) ==
  LET me == users[uid]
      fail(kind, key) == Outcome(students, courses, kind, key)
  IN
  IF ~requireRole(uid, {"superAdmin", "admin", "moderator"})
    THEN fail("AccessDenied", None)
  ELSE IF sid > Len(students) \/ ~students[sid].isActive
    THEN fail("NotFound", None)
  ELSE IF me.role # "superAdmin" /\ students[sid].branch # me.branch
    THEN fail("AccessDenied", None)
  ELSE
    LET removed == [students EXCEPT ![sid].isActive = FALSE]
        cid == students[sid].course
        unenrolled == unenrollStudent(courses[cid])
    IN IF unenrolled.thrown
         THEN Outcome(removed, courses, "ServerError", None)
       ELSE Outcome(removed, [courses EXCEPT ![cid] = unenrolled.doc], "ok", None)

\* ------------------------------------------------ requests in flight
\* the two connections on which POST /api/students is followed step by step
Procs == {"p1", "p2"}

\* a connection with no request on it
IdleRequest ==
  [pc |-> "idle", uid |-> None,
   body |-> [course |-> None, branch |-> None, email |-> None],
   course |-> NoCourse, studentId |-> <<>>, kind |-> None, key |-> None]

NoRequests == [p \in Procs |-> IdleRequest]

\* ------------------------------------------------------- initial state
\* seeded branches and users: one superAdmin without a branch, and an admin,
\* a moderator and a staff member tied to a branch; u5 is not created yet
NoUser == [exists |-> FALSE, role |-> "staff", branch |-> None,
           isActive |-> FALSE, lastLogin |-> 0]

SeedUser(role, branch) ==
  [exists |-> TRUE, role |-> role, branch |-> branch,
   isActive |-> TRUE, lastLogin |-> 0]

InitBranches == [b \in BranchIds |-> [isActive |-> TRUE]]

InitUsers ==
  [u \in UserIds |->
     CASE u = "u1" -> SeedUser("superAdmin", None)
       [] u = "u2" -> SeedUser("admin", "b1")
       [] u = "u3" -> SeedUser("moderator", "b2")
       [] u = "u4" -> SeedUser("staff", "b1")
       [] OTHER -> NoUser]

\* a course as POST /api/courses leaves it: nobody enrolled, maxStudents >= 1
NewCourse(title, branch, maxStudents, isActive) ==
  [title |-> title, branch |-> branch, maxStudents |-> maxStudents,
   currentEnrolled |-> 0, isActive |-> isActive]

NoResp == [op |-> None, kind |-> None, key |-> None]

InitIdle ==
  /\ branches = InitBranches
  /\ users = InitUsers
  /\ attendance = <<>>
  /\ transactions = <<>>
  /\ budgets = <<>>
  /\ tokens = {}
  /\ clock = 0
  /\ omitUndefined = TRUE
  /\ requests = NoRequests
  /\ resp = NoResp

\* ------------------------------------------ specification: enrollment
InitEnroll ==
  /\ InitIdle
  /\ \E m1 \in 1..MaxSeats :
       courses = [c \in CourseIds |->
                    CASE c = "c1" -> NewCourse(TitleWebDev, "b1", m1, TRUE)
                      [] c = "c2" -> NewCourse(TitleWebDesign, "all", 1, TRUE)
                      [] OTHER -> NewCourse(Title3dArt, "b2", 1, FALSE)]
  /\ students = <<>>

StudentBodies ==
  [course : CourseIds \cup {UnknownId}, branch : BranchIds \cup {None},
   email : Emails]

StudentUpdates ==
  [course : CourseIds \cup {UnknownId, None}, email : Emails \cup {None}]

\* a creation that passes every check the handler makes before it looks at
\* the seats: caller role, target branch, course active and in scope
CreateReachesSeatCheck(uid, body) ==
  LET me == users[uid]
      targetBranchId == IF me.role # "superAdmin" THEN me.branch ELSE body.branch
  IN /\ me.role \in {"superAdmin", "admin", "moderator"}
     /\ (me.role # "superAdmin" => body.branch \in {None, targetBranchId})
     /\ targetBranchId \in BranchIds /\ branches[targetBranchId].isActive
     /\ body.course \in CourseIds /\ courses[body.course].isActive
     /\ (me.role # "superAdmin" =>
           courses[body.course].branch \in {"all", me.branch})

\* a course change that passes every check PUT /api/students/:id makes
\* before it looks at the seats of the new course: caller role, student
\* found and in the caller's branch, new course active and in scope
ChangeReachesSeatCheck(uid, sid, body) ==
  LET me == users[uid]
  IN /\ me.role \in {"superAdmin", "admin", "moderator"}
     /\ sid <= Len(students) /\ students[sid].isActive
     /\ (me.role # "superAdmin" => students[sid].branch = me.branch)
     /\ body.course \in CourseIds
     /\ body.course # students[sid].course
     /\ ~courseMissing(body.course) /\ courses[body.course].isActive
     /\ (me.role # "superAdmin" =>
           courses[body.course].branch \in {"all", me.branch})

\* the exchange as the caller sees it: the course the request named, whether
\* the request was acceptable up to the seat check, and the answer
StudentResp(op, r, course, acceptable) ==
  [op |-> op, kind |-> r.kind, key |-> r.key, course |-> course,
   acceptable |-> acceptable]

CreateStudent(uid, body) ==
  /\ authenticateToken(uid) = "ok"
  /\ Len(students) < MaxStudentRecs
  /\ \E r \in {createStudent(uid, body)} :
        /\ students' = r.students
        /\ courses' = r.courses
        /\ resp' = StudentResp("createStudent", r, body.course,
                             CreateReachesSeatCheck(uid, body))
  /\ UNCHANGED <<branches, users, attendance, transactions, budgets, tokens,
                 clock, omitUndefined, requests>>

UpdateStudent(uid, sid, body) ==
  /\ authenticateToken(uid) = "ok"
  /\ \E r \in {updateStudent(uid, sid, body)} :
        /\ students' = r.students
        /\ courses' = r.courses
        /\ resp' = StudentResp("updateStudent", r, body.course,
                             ChangeReachesSeatCheck(uid, sid, body))
  /\ UNCHANGED <<branches, users, attendance, transactions, budgets, tokens,
                 clock, omitUndefined, requests>>

DeleteStudent(uid, sid) ==
  /\ authenticateToken(uid) = "ok"
  /\ \E r \in {deleteStudent(uid, sid)} :
        /\ students' = r.students
        /\ courses' = r.courses
        /\ resp' = StudentResp("deleteStudent", r, None, FALSE)
  /\ UNCHANGED <<branches, users, attendance, transactions, budgets, tokens,
                 clock, omitUndefined, requests>>

NextEnroll ==
  \/ \E uid \in UserIds, body \in StudentBodies : CreateStudent(uid, body)
  \/ \E uid \in UserIds, sid \in 1..MaxStudentRecs, body \in StudentUpdates :
       UpdateStudent(uid, sid, body)
  \/ \E uid \in UserIds, sid \in 1..MaxStudentRecs : DeleteStudent(uid, sid)

SpecEnroll == InitEnroll /\ [][NextEnroll]_vars

FullCourseRejectsCreation ==
  [][(resp'.op = "createStudent" /\ resp'.acceptable) =>
       /\ (courses[resp'.course].currentEnrolled >= courses[resp'.course].maxStudents
            => /\ resp'.kind = "CourseFull"
               /\ students' = students
               /\ courses' = courses)
       /\ (students = <<>> /\ courses[resp'.course].maxStudents = 1
            => /\ resp'.kind = "ok"
               /\ Len(students') = 1
               /\ courses'[resp'.course].currentEnrolled = 1)]_vars

\* the second creation against a one-seat course has just been refused
SecondCreationRefused ==
  /\ resp.op = "createStudent" /\ resp.kind = "CourseFull"
  /\ \E c \in CourseIds :
       /\ courses[c].maxStudents = 1 /\ courses[c].currentEnrolled = 1
       /\ Cardinality({i \in 1..Len(students) :
                         students[i].course = c /\ students[i].isActive}) = 1

\* =================================================== users and sessions
\* roles a request body may name in the user and session specifications
RoleInputs == {"superAdmin", "admin", "moderator"}

UserOutcome(us, kind) == [users |-> us, kind |-> kind]

\* POST /api/users, body = [username, role, branch]
createUser(actor, body) ==
  LET me == users[actor] IN
  IF ~requireRole(actor, {"superAdmin", "admin"})
  THEN UserOutcome(users, "AccessDenied")
  ELSE IF me.role # "superAdmin" /\ (body.branch = None \/ body.branch # me.branch)
  THEN UserOutcome(users, "InvalidReference")
  ELSE IF me.role # "superAdmin" /\ body.role = "admin"
  THEN UserOutcome(users, "AccessDenied")
  ELSE IF body.branch # None /\ ~branches[body.branch].isActive
  THEN UserOutcome(users, "InvalidReference")
  ELSE IF users[body.username].exists
  THEN UserOutcome(users, "DuplicateKey")
  ELSE IF body.role # "superAdmin" /\ body.branch = None
  THEN UserOutcome(users, "ServerError")
  ELSE UserOutcome([users EXCEPT ![body.username] =
                      [exists |-> TRUE, role |-> body.role,
                       branch |-> body.branch, isActive |-> TRUE,
                       lastLogin |-> 0]], "ok")

\* PUT /api/users/:id, body = [role, hasIsActive, isActive]
updateUser(actor, id, body) ==
  LET me == users[actor]
      user == users[id]
      role == IF body.role # None THEN body.role ELSE user.role
      isActive == IF body.hasIsActive THEN body.isActive ELSE user.isActive
  IN
  IF ~requireRole(actor, {"superAdmin", "admin"})
  THEN UserOutcome(users, "AccessDenied")
  ELSE IF ~user.exists THEN UserOutcome(users, "NotFound")
  ELSE IF me.role = "admin" /\ user.branch = None
  THEN UserOutcome(users, "ServerError")
  ELSE IF me.role = "admin" /\ user.branch # me.branch
  THEN UserOutcome(users, "AccessDenied")
  ELSE IF me.role = "admin" /\ user.role = "admin" /\ id # actor
  THEN UserOutcome(users, "AccessDenied")
  ELSE IF me.role = "admin" /\ user.role = "superAdmin"
  THEN UserOutcome(users, "AccessDenied")
  ELSE IF me.role = "admin" /\ body.role \in {"admin", "superAdmin"}
  THEN UserOutcome(users, "AccessDenied")
  ELSE IF role # "superAdmin" /\ user.branch = None
  THEN UserOutcome(users, "ServerError")
  ELSE UserOutcome([users EXCEPT ![id].role = role,
                                 ![id].isActive = isActive], "ok")

\* DELETE /api/users/:id
deleteUser(actor, id) ==
  LET me == users[actor]
      user == users[id]
  IN
  IF ~requireRole(actor, {"superAdmin", "admin"})
  THEN UserOutcome(users, "AccessDenied")
  ELSE IF ~user.exists THEN UserOutcome(users, "NotFound")
  ELSE IF me.role = "admin" /\ user.branch = None
  THEN UserOutcome(users, "ServerError")
  ELSE IF me.role = "admin" /\ user.branch # me.branch
  THEN UserOutcome(users, "AccessDenied")
  ELSE IF me.role = "admin" /\ user.role = "admin"
  THEN UserOutcome(users, "AccessDenied")
  ELSE IF id = actor THEN UserOutcome(users, "ValidationFailed")
  ELSE IF user.role # "superAdmin" /\ user.branch = None
  THEN UserOutcome(users, "ServerError")
  ELSE UserOutcome([users EXCEPT ![id].isActive = FALSE], "ok")

\* POST /api/users/:id/restore
restoreUser(actor, id) ==
  LET me == users[actor]
      user == users[id]
  IN
  IF ~requireRole(actor, {"superAdmin", "admin"})
  THEN UserOutcome(users, "AccessDenied")
  ELSE IF ~user.exists THEN UserOutcome(users, "NotFound")
  ELSE IF me.role = "admin" /\ user.branch = None
  THEN UserOutcome(users, "ServerError")
  ELSE IF me.role = "admin" /\ user.branch # me.branch
  THEN UserOutcome(users, "AccessDenied")
  ELSE IF user.isActive THEN UserOutcome(users, "ValidationFailed")
  ELSE UserOutcome([users EXCEPT ![id].isActive = TRUE], "ok")

\* PUT /api/users/:id/role
updateUserRole(actor, id, role) ==
  LET me == users[actor]
      user == users[id]
  IN
  IF ~requireRole(actor, {"admin"}) THEN UserOutcome(users, "AccessDenied")
  ELSE IF role \notin {"moderator", "staff"}
  THEN UserOutcome(users, "ValidationFailed")
  ELSE IF ~user.exists THEN UserOutcome(users, "NotFound")
  ELSE IF user.branch = None THEN UserOutcome(users, "ServerError")
  ELSE IF user.branch # me.branch THEN UserOutcome(users, "AccessDenied")
  ELSE IF user.role = "admin" THEN UserOutcome(users, "AccessDenied")
  ELSE IF id = actor THEN UserOutcome(users, "ValidationFailed")
  ELSE UserOutcome([users EXCEPT ![id].role = role], "ok")

UserResp(op, kind, actor) ==
  [op |-> op, kind |-> kind, key |-> None, actor |-> actor]

UserBodies ==
  [username : {"u2", "u4"}, role : RoleInputs, branch : BranchIds \cup {None}]

UserUpdates ==
  [role : RoleInputs \cup {None}, hasIsActive : {TRUE}, isActive : BOOLEAN]
    \cup [role : RoleInputs \cup {None}, hasIsActive : {FALSE},
          isActive : {FALSE}]

CreateUser(actor, body) ==
  /\ authenticateToken(actor) = "ok"
  /\ \E r \in {createUser(actor, body)} :
       /\ users' = r.users
       /\ resp' = UserResp("createUser", r.kind, actor)
  /\ UNCHANGED <<branches, courses, students, attendance, transactions,
                 budgets, tokens, clock, omitUndefined, requests>>

UpdateUser(actor, id, body) ==
  /\ authenticateToken(actor) = "ok"
  /\ \E r \in {updateUser(actor, id, body)} :
       /\ users' = r.users
       /\ resp' = UserResp("updateUser", r.kind, actor)
  /\ UNCHANGED <<branches, courses, students, attendance, transactions,
                 budgets, tokens, clock, omitUndefined, requests>>

DeleteUser(actor, id) ==
  /\ authenticateToken(actor) = "ok"
  /\ \E r \in {deleteUser(actor, id)} :
       /\ users' = r.users
       /\ resp' = UserResp("deleteUser", r.kind, actor)
  /\ UNCHANGED <<branches, courses, students, attendance, transactions,
                 budgets, tokens, clock, omitUndefined, requests>>

RestoreUser(actor, id) ==
  /\ authenticateToken(actor) = "ok"
  /\ \E r \in {restoreUser(actor, id)} :
       /\ users' = r.users
       /\ resp' = UserResp("restoreUser", r.kind, actor)
  /\ UNCHANGED <<branches, courses, students, attendance, transactions,
                 budgets, tokens, clock, omitUndefined, requests>>

UpdateUserRole(actor, id, role) ==
  /\ authenticateToken(actor) = "ok"
  /\ \E r \in {updateUserRole(actor, id, role)} :
       /\ users' = r.users
       /\ resp' = UserResp("updateUserRole", r.kind, actor)
  /\ UNCHANGED <<branches, courses, students, attendance, transactions,
                 budgets, tokens, clock, omitUndefined, requests>>

\* ------------------------------------- specification: user management
\* the superAdmin and the admin of branch b1; u4 is created by
\* POST /api/users
InitUserAccounts ==
  [u \in UserIds |->
     CASE u = "u1" -> SeedUser("superAdmin", None)
       [] u = "u2" -> SeedUser("admin", "b1")
       [] OTHER -> NoUser]

InitUsersSpec ==
  /\ branches = InitBranches
  /\ users = InitUserAccounts
  /\ courses = [c \in CourseIds |->
                  CASE c = "c1" -> NewCourse(TitleWebDev, "b1", 1, TRUE)
                    [] c = "c2" -> NewCourse(TitleWebDesign, "all", 1, TRUE)
                    [] OTHER -> NewCourse(Title3dArt, "b2", 1, TRUE)]
  /\ students = <<>>
  /\ attendance = <<>>
  /\ transactions = <<>>
  /\ budgets = <<>>
  /\ tokens = {}
  /\ clock = 0
  /\ omitUndefined = TRUE
  /\ requests = NoRequests
  /\ resp = NoResp

NextUsers ==
  \/ \E actor \in UserIds, body \in UserBodies : CreateUser(actor, body)
  \/ \E actor \in UserIds, id \in UserIds, body \in UserUpdates :
       UpdateUser(actor, id, body)
  \/ \E actor \in UserIds, id \in UserIds : DeleteUser(actor, id)
  \/ \E actor \in UserIds, id \in UserIds : RestoreUser(actor, id)
  \/ \E actor \in UserIds, id \in UserIds, role \in RoleInputs :
       UpdateUserRole(actor, id, role)

SpecUsers == InitUsersSpec /\ [][NextUsers]_vars

\* C5: no user create, user update or role update issued by an admin makes
\* any user acquire the role admin or superAdmin: a user that holds one of
\* these roles after the request held the same role before it.
AdminNeverGrantsAdminRole ==
  [][(resp'.op \in {"createUser", "updateUser", "updateUserRole"}
        /\ users[resp'.actor].role = "admin") =>
       \A u \in UserIds :
         (users'[u].exists /\ users'[u].role \in {"admin", "superAdmin"})
           => (users[u].exists /\ users[u].role = users'[u].role)]_vars

\* ------------------------------------------------------------- branches
BranchOutcome(br, kind) == [branches |-> br, kind |-> kind]

\* PATCH /api/branches/:id/toggle-status
toggleBranchStatus(actor, id) ==
  IF ~requireRole(actor, {"superAdmin"})
  THEN BranchOutcome(branches, "AccessDenied")
  ELSE IF branchMissing(id) THEN BranchOutcome(branches, "NotFound")
  ELSE BranchOutcome([branches EXCEPT ![id].isActive = ~branches[id].isActive],
                     "ok")

ToggleBranchStatus(actor, id) ==
  /\ authenticateToken(actor) = "ok"
  /\ \E r \in {toggleBranchStatus(actor, id)} :
       /\ branches' = r.branches
       /\ resp' = UserResp("toggleBranchStatus", r.kind, actor)
  /\ UNCHANGED <<users, courses, students, attendance, transactions,
                 budgets, tokens, clock, omitUndefined, requests>>

\* ---------------------------------------------------------------- login
\* utils/jwt generateToken: the signed payload
generateToken(userId, role, branchId) ==
  [userId |-> userId, role |-> role, branchId |-> branchId]

\* userSchema.methods.updateLastLogin
updateLastLogin(us, uid, now) == [us EXCEPT ![uid].lastLogin = now]

LoginOutcome(us, tk, kind) == [users |-> us, tokens |-> tk, kind |-> kind]

\* POST /api/auth/login
loginBranchOptional(username, passwordValid, branchId) ==
  LET user == users[username] IN
  IF ~user.exists \/ ~user.isActive
  THEN LoginOutcome(users, tokens, "InvalidCredentials")
  ELSE IF ~passwordValid
  THEN LoginOutcome(users, tokens, "InvalidCredentials")
  ELSE IF user.role = "superAdmin"
  THEN IF branchId # None
          /\ (branchMissing(branchId) \/ ~branches[branchId].isActive)
       THEN LoginOutcome(users, tokens, "InvalidReference")
       ELSE LoginOutcome(updateLastLogin(users, username, clock + 1),
                         tokens \cup
                           {generateToken(username, user.role, branchId)},
                         "ok")
  ELSE IF user.branch = None \/ ~branches[user.branch].isActive
  THEN LoginOutcome(users, tokens, "BranchInactive")
  ELSE IF branchId # None /\ user.branch # branchId
  THEN LoginOutcome(users, tokens, "BranchAccessDenied")
  ELSE LoginOutcome(updateLastLogin(users, username, clock + 1),
                    tokens \cup
                      {generateToken(username, user.role, user.branch)},
                    "ok")

login(username, passwordValid, branchId) ==
  LET user == users[username] IN
  IF ~user.exists \/ ~user.isActive
  THEN LoginOutcome(users, tokens, "InvalidCredentials")
  ELSE IF ~passwordValid
  THEN LoginOutcome(users, tokens, "InvalidCredentials")
  ELSE IF user.role = "superAdmin"
  THEN IF branchId # None
          /\ (branchMissing(branchId) \/ ~branches[branchId].isActive)
       THEN LoginOutcome(users, tokens, "InvalidReference")
       ELSE LoginOutcome(updateLastLogin(users, username, clock + 1),
                         tokens \cup
                           {generateToken(username, user.role, branchId)},
                         "ok")
  ELSE IF user.branch = None \/ ~branches[user.branch].isActive
  THEN LoginOutcome(users, tokens, "BranchInactive")
  ELSE IF branchId = None
  THEN LoginOutcome(users, tokens, "BranchSelectionRequired")
  ELSE IF user.branch # branchId
  THEN LoginOutcome(users, tokens, "BranchAccessDenied")
  ELSE LoginOutcome(updateLastLogin(users, username, clock + 1),
                    tokens \cup
                      {generateToken(username, user.role, user.branch)},
                    "ok")

\* at most MaxTokens tokens are issued
Login(username, passwordValid, branchId) ==
  \E r \in {login(username, passwordValid, branchId)} :
    /\ r.kind = "ok" => clock < MaxTokens
    /\ users' = r.users
    /\ tokens' = r.tokens
    /\ clock' = IF r.kind = "ok" THEN clock + 1 ELSE clock
    /\ resp' = [op |-> "login", kind |-> r.kind, key |-> None,
                user |-> username, passwordValid |-> passwordValid,
                branchId |-> branchId]
    /\ UNCHANGED <<branches, courses, students, attendance, transactions,
                   budgets, omitUndefined, requests>>

\* the identity a handler sees after authenticateToken: req.user is the
\* User document with its branch populated
NoIdentity == [userId |-> None, role |-> None, branch |-> None]

reqUser(uid) ==
  [userId |-> uid, role |-> users[uid].role, branch |-> users[uid].branch]

\* GET /api/auth/me with a token of payload decoded; jwt.verify rejects an
\* expired token
Me(decoded, expired) ==
  /\ decoded \in tokens
  /\ LET kind == IF expired THEN "TokenExpired"
                 ELSE authenticateToken(decoded.userId)
     IN resp' = [op |-> "me", kind |-> kind, key |-> None, token |-> decoded,
                 identity |-> IF kind = "ok" THEN reqUser(decoded.userId)
                              ELSE NoIdentity]
  /\ UNCHANGED <<branches, users, courses, students, attendance,
                 transactions, budgets, tokens, clock, omitUndefined,
                 requests>>

\* ------------------------------------------- specification: sessions
LoginBranchIds == BranchIds \cup {None}
LoginNames == {"u1", "u2", "u5"}
SessionUpdates == {body \in UserUpdates : body.role \in {None, "superAdmin"}}
TokenPayloads == [userId : UserIds, role : Roles, branchId : LoginBranchIds]

NextSession ==
  \/ \E username \in LoginNames, passwordValid \in BOOLEAN,
        branchId \in LoginBranchIds : Login(username, passwordValid, branchId)
  \/ \E decoded \in TokenPayloads, expired \in BOOLEAN : Me(decoded, expired)
  \/ \E actor \in UserIds, id \in UserIds, body \in SessionUpdates :
       UpdateUser(actor, id, body)
  \/ \E actor \in UserIds, id \in BranchIds : ToggleBranchStatus(actor, id)

SpecSession == InitUsersSpec /\ [][NextSession]_vars

\* C6: a request resolved from a token issued to a superAdmin carries the
\* branch chosen at login as its effective branch, and no branch when none
\* was chosen.
SuperAdminSessionCarriesChosenBranch ==
  (resp.op = "me" /\ resp.kind = "ok" /\ resp.token.role = "superAdmin")
    => resp.identity.branch = resp.token.branchId

\* C7: no request is authorised while the user of its token, or the branch
\* that user belongs to, is inactive.
NeverAuthorisedWhileInactive ==
  (resp.op = "me" /\ resp.kind = "ok") =>
    LET user == users[resp.token.userId] IN
      /\ user.exists /\ user.isActive
      /\ user.branch # None => branches[user.branch].isActive

\* a login whose username names an active user and whose password matches
ValidCredentials(r) ==
  /\ users[r.user].exists /\ users[r.user].isActive
  /\ r.passwordValid

\* what C8 promises of a login that names no branch or another branch
BranchErrorWithoutSideEffect(r) ==
  /\ r.branchId = None =>
       /\ r.kind = "BranchSelectionRequired"
       /\ tokens' = tokens /\ users' = users
  /\ (r.branchId # None /\ r.branchId # users[r.user].branch) =>
       /\ r.kind = "BranchAccessDenied"
       /\ tokens' = tokens /\ users' = users

Statuses == {"Present", "Absent", "Late", "Excused"}

\* new Date(string): two spellings of the same day give the same Date
NewDate(s) ==
  CASE s = "2024-01-01" -> 1
    [] s = "2024-01-01T00:00:00Z" -> 1
    [] OTHER -> 2

\* now.toTimeString().slice(0, 5)
Now == "now"

\* attendanceSchema.pre('save')
preSave(doc) ==
  LET timed == IF doc.status \in {"Present", "Late"} /\ doc.timeIn = None
               THEN [doc EXCEPT !.timeIn = Now] ELSE doc
  IN IF timed.status \in {"Absent", "Excused"}
     THEN [timed EXCEPT !.timeIn = None] ELSE timed

\* Attendance.findOne({ student, course, date }): index of the document, or 0
findAttendance(att, student, course, date) ==
  IF \E i \in 1..Len(att) : att[i].student = student /\ att[i].course = course
                             /\ att[i].date = date
  THEN CHOOSE i \in 1..Len(att) : att[i].student = student
                                  /\ att[i].course = course /\ att[i].date = date
  ELSE 0

AttOutcome(att, kind) == [attendance |-> att, kind |-> kind]

studentMissing(sid) == sid \notin 1..Len(students)

\* POST /api/attendance, body = [student, course, date, status, timeIn, notes]
markAttendance(att, actor, body) ==
  LET me == users[actor]
      date == NewDate(body.date)
      i == findAttendance(att, body.student, body.course, date)
  IN
  IF ~requireRole(actor, {"superAdmin", "admin", "moderator"})
  THEN AttOutcome(att, "AccessDenied")
  ELSE IF body.status = None THEN AttOutcome(att, "ValidationFailed")
  ELSE IF body.status \notin Statuses THEN AttOutcome(att, "ValidationFailed")
  ELSE IF studentMissing(body.student) \/ ~students[body.student].isActive
  THEN AttOutcome(att, "NotFound")
  ELSE IF courseMissing(body.course) \/ ~courses[body.course].isActive
  THEN AttOutcome(att, "NotFound")
  ELSE IF me.role # "superAdmin" /\ students[body.student].branch # me.branch
  THEN AttOutcome(att, "AccessDenied")
  ELSE IF i # 0
  THEN AttOutcome([att EXCEPT ![i] = preSave([att[i] EXCEPT
                                       !.status = body.status,
                                       !.timeIn = body.timeIn,
                                       !.notes = body.notes,
                                       !.lastModifiedBy = actor])], "ok")
  ELSE AttOutcome(Append(att, preSave(
         [student |-> body.student, course |-> body.course, date |-> date,
          branch |-> students[body.student].branch, status |-> body.status,
          timeIn |-> body.timeIn, notes |-> body.notes, markedBy |-> actor,
          lastModifiedBy |-> None, createdAt |-> clock, isActive |-> TRUE])),
       "ok")

\* attendanceSchema.methods.canModify; the route passes a document whose
\* branch is populated, and branchToString tells whether toString() of the
\* populated branch is its id ("id") or a rendering of the document
canModify(doc, userRole, userBranchId, branchToString) ==
  IF userRole = "superAdmin" THEN TRUE
  ELSE IF userRole \in {"admin", "moderator"}
  THEN branchToString = "id" /\ doc.branch = userBranchId
  ELSE FALSE

\* PUT /api/attendance/:id, body = [status, timeIn, notes]; None = key absent
updateAttendance(att, actor, id, body, branchToString) ==
  LET me == users[actor] IN
  IF ~requireRole(actor, {"superAdmin", "admin", "moderator"})
  THEN AttOutcome(att, "AccessDenied")
  ELSE IF id \notin 1..Len(att) \/ ~att[id].isActive
  THEN AttOutcome(att, "NotFound")
  ELSE IF ~canModify(att[id], me.role, me.branch, branchToString)
  THEN AttOutcome(att, "AccessDenied")
  ELSE IF body.status # None /\ body.status \notin Statuses
  THEN AttOutcome(att, "ValidationFailed")
  ELSE AttOutcome([att EXCEPT ![id] = preSave([att[id] EXCEPT
         !.status = IF body.status # None THEN body.status ELSE @,
         !.timeIn = IF body.timeIn # None THEN body.timeIn ELSE @,
         !.notes = IF body.notes # None THEN body.notes ELSE @,
         !.lastModifiedBy = actor])], "ok")

\* DELETE /api/attendance/:id
deleteAttendance(att, actor, id) ==
  LET me == users[actor] IN
  IF ~requireRole(actor, {"superAdmin", "admin"})
  THEN AttOutcome(att, "AccessDenied")
  ELSE IF id \notin 1..Len(att) \/ ~att[id].isActive
  THEN AttOutcome(att, "NotFound")
  ELSE IF me.role # "superAdmin" /\ att[id].branch # me.branch
  THEN AttOutcome(att, "AccessDenied")
  ELSE AttOutcome([att EXCEPT ![id].isActive = FALSE,
                              ![id].lastModifiedBy = actor], "ok")

\* the $set of one update applied to the document it matched; a $set key
\* whose value is undefined is dropped by the caster (omitUndefined) or
\* written as null
upsertUpdateWithMarkedBy(doc, record, markedByUserId) ==
  [doc EXCEPT
     !.status = record.status,
     !.timeIn = IF record.timeIn = None /\ omitUndefined THEN @
                ELSE record.timeIn,
     !.notes = IF record.notes = None /\ omitUndefined THEN @
               ELSE record.notes,
     !.branch = record.branch,
     !.markedBy = markedByUserId,
     !.lastModifiedBy = markedByUserId]

upsertUpdate(doc, record, markedByUserId) ==
  [doc EXCEPT
     !.status = record.status,
     !.timeIn = IF record.timeIn = None /\ omitUndefined THEN @
                ELSE record.timeIn,
     !.notes = IF record.notes = None /\ omitUndefined THEN @
               ELSE record.notes,
     !.branch = record.branch,
     !.lastModifiedBy = markedByUserId]

\* the document an update inserts when it matches none: the filter's
\* fields, $set, $setOnInsert and the schema defaults
upsertInsert(record, markedByUserId) ==
  [student |-> record.student, course |-> record.course,
   date |-> NewDate(record.date), branch |-> record.branch,
   status |-> record.status, timeIn |-> record.timeIn,
   notes |-> record.notes, markedBy |-> markedByUserId,
   lastModifiedBy |-> markedByUserId, createdAt |-> clock,
   isActive |-> TRUE]

\* one updateOne of bulkWrite with upsert: true
upsertOneAlwaysInsert(att, record, markedByUserId) ==
  Append(att, upsertInsert(record, markedByUserId))

upsertOne(att, record, markedByUserId) ==
  LET i == findAttendance(att, record.student, record.course,
                          NewDate(record.date))
  IN IF i # 0
     THEN [att EXCEPT ![i] = upsertUpdate(att[i], record, markedByUserId)]
     ELSE Append(att, upsertInsert(record, markedByUserId))

\* attendanceSchema.statics.bulkUpsertAttendance: the operations in order
RECURSIVE bulkUpsertAttendance(_, _, _)
bulkUpsertAttendance(att, attendanceRecords, markedByUserId) ==
  IF attendanceRecords = <<>> THEN att
  ELSE bulkUpsertAttendance(
         upsertOne(att, Head(attendanceRecords), markedByUserId),
         Tail(attendanceRecords), markedByUserId)

\* POST /api/attendance/bulk
bulkAttendance(att, actor, attendanceRecords) ==
  LET me == users[actor]
      n == Len(attendanceRecords)
      recordsWithBranch ==
        [k \in 1..n |->
           [student |-> attendanceRecords[k].student,
            course |-> attendanceRecords[k].course,
            date |-> attendanceRecords[k].date,
            status |-> attendanceRecords[k].status,
            timeIn |-> attendanceRecords[k].timeIn,
            notes |-> attendanceRecords[k].notes,
            branch |-> students[attendanceRecords[k].student].branch]]
  IN
  IF ~requireRole(actor, {"superAdmin", "admin", "moderator"})
  THEN AttOutcome(att, "AccessDenied")
  ELSE IF n = 0 THEN AttOutcome(att, "ValidationFailed")
  ELSE IF \E k \in 1..n : attendanceRecords[k].status \notin Statuses
  THEN AttOutcome(att, "ValidationFailed")
  ELSE IF me.role # "superAdmin"
          /\ \E k \in 1..n :
               /\ ~studentMissing(attendanceRecords[k].student)
               /\ students[attendanceRecords[k].student].branch # me.branch
  THEN AttOutcome(att, "AccessDenied")
  ELSE IF \E k \in 1..n : studentMissing(attendanceRecords[k].student)
  THEN AttOutcome(att, "ServerError")
  ELSE AttOutcome(bulkUpsertAttendance(att, recordsWithBranch, actor), "ok")

\* status, timeIn and notes of the documents, with the keys they are stored
\* under, in collection order
Projection(att) ==
  [i \in 1..Len(att) |->
     [student |-> att[i].student, course |-> att[i].course,
      date |-> att[i].date, status |-> att[i].status,
      timeIn |-> att[i].timeIn, notes |-> att[i].notes]]

\* the answer, with the caller and the id the request named (0: none)
AttResp(op, kind, actor, id) ==
  [op |-> op, kind |-> kind, key |-> None, actor |-> actor,
   coll |-> "attendance", id |-> id]

MarkAttendance(actor, body) ==
  /\ authenticateToken(actor) = "ok"
  /\ \E r \in {markAttendance(attendance, actor, body)} :
       /\ Len(r.attendance) <= MaxAttRecs
       /\ attendance' = r.attendance
       /\ resp' = AttResp("markAttendance", r.kind, actor, 0)
  /\ UNCHANGED <<branches, users, courses, students, transactions, budgets,
                 tokens, clock, omitUndefined, requests>>

UpdateAttendance(actor, id, body, branchToString) ==
  /\ authenticateToken(actor) = "ok"
  /\ \E r \in {updateAttendance(attendance, actor, id, body, branchToString)} :
       /\ attendance' = r.attendance
       /\ resp' = AttResp("updateAttendance", r.kind, actor, id)
  /\ UNCHANGED <<branches, users, courses, students, transactions, budgets,
                 tokens, clock, omitUndefined, requests>>

DeleteAttendance(actor, id) ==
  /\ authenticateToken(actor) = "ok"
  /\ \E r \in {deleteAttendance(attendance, actor, id)} :
       /\ attendance' = r.attendance
       /\ resp' = AttResp("deleteAttendance", r.kind, actor, id)
  /\ UNCHANGED <<branches, users, courses, students, transactions, budgets,
                 tokens, clock, omitUndefined, requests>>

\* the response also records what a second submission of the same batch by
\* the same caller would leave in the collection
BulkAttendance(actor, attendanceRecords) ==
  /\ authenticateToken(actor) = "ok"
  /\ \E r \in {bulkAttendance(attendance, actor, attendanceRecords)} :
     \E again \in {bulkAttendance(r.attendance, actor, attendanceRecords)} :
       /\ Len(again.attendance) <= MaxAttRecs
       /\ attendance' = r.attendance
       /\ resp' = [op |-> "bulkAttendance", kind |-> r.kind, key |-> None,
                   actor |-> actor,
                   records |-> attendanceRecords,
                   upsertedCount |-> Len(r.attendance) - Len(attendance),
                   resubmitted |-> Projection(again.attendance)]
  /\ UNCHANGED <<branches, users, courses, students, transactions, budgets,
                 tokens, clock, omitUndefined, requests>>

\* --------------------------------------- specification: attendance
\* the first student of a course, as POST /api/students leaves the document
SeedStudent(title, course, branch, email) ==
  [studentId |-> generateStudentId(NewCourse(title, branch, 1, TRUE)),
   email |-> email, course |-> course, branch |-> branch, isActive |-> TRUE]

InitAtt ==
  /\ branches = InitBranches
  /\ users = InitUsers
  /\ courses = [c \in CourseIds |->
                  CASE c = "c1" -> [NewCourse(TitleWebDev, "b1", 1, TRUE)
                                      EXCEPT !.currentEnrolled = 1]
                    [] c = "c2" -> [NewCourse(Title3dArt, "all", 1, TRUE)
                                      EXCEPT !.currentEnrolled = 1]
                    [] OTHER -> NewCourse(TitleWebDesign, "b2", 1, FALSE)]
  /\ students = <<SeedStudent(TitleWebDev, "c1", "b1", "e1"),
                  SeedStudent(Title3dArt, "c2", "b1", "e2")>>
  /\ attendance = <<>>
  /\ transactions = <<>>
  /\ budgets = <<>>
  /\ tokens = {}
  /\ clock = 0
  /\ omitUndefined \in BOOLEAN
  /\ requests = NoRequests
  /\ resp = NoResp

AttActors == {"u2"}

MarkBodies ==
  [student : {1, 2}, course : {"c1"},
   date : {"2024-01-01", "2024-01-01T00:00:00Z"},
   status : {"Present", "Absent", "Late", "Sick"}, timeIn : {None, "09:00"},
   notes : {"n"}]

AttendanceUpdates ==
  [status : {None, "Absent", "Late"}, timeIn : {None, "09:00"}, notes : {None}]

\* records of a client that leaves the timeIn of a Present student to the
\* server and sends the timeIn it holds for a student it marks Absent
BulkRecords ==
  {r \in [student : {1, 2}, course : {"c1"}, date : {"2024-01-01"},
          status : {"Present", "Absent"}, timeIn : {None, "09:00"},
          notes : {"n"}] :
     (r.status = "Present") <=> (r.timeIn = None)}

\* the batches of at most MaxBatch records
BulkBatches == UNION {[1..n -> BulkRecords] : n \in 0..MaxBatch}

NextAtt ==
  \/ \E actor \in AttActors, body \in MarkBodies : MarkAttendance(actor, body)
  \/ \E actor \in AttActors, id \in 1..MaxAttRecs, body \in AttendanceUpdates,
        branchToString \in {"id", "inspect"} :
       UpdateAttendance(actor, id, body, branchToString)
  \/ \E actor \in AttActors, attendanceRecords \in BulkBatches :
       BulkAttendance(actor, attendanceRecords)

SpecAtt == InitAtt /\ [][NextAtt]_vars

\* C9: submitting the same bulk attendance batch a second time leaves the
\* records the first submission left: the same keys (student, course, date)
\* with the same status, timeIn and notes, and no duplicates.
BulkResubmitLeavesSameRecords ==
  resp.op = "bulkAttendance" => resp.resubmitted = Projection(attendance)

\* a batch of two records has updated one existing document and inserted one
BulkUpsertedAndUpdated ==
  /\ resp.op = "bulkAttendance" /\ resp.kind = "ok"
  /\ resp.upsertedCount = 1 /\ Len(attendance) = 2
  /\ attendance[1].status = "Absent" /\ attendance[1].timeIn = "09:00"

\* C10: after any attendance write, a record with status Absent or Excused
\* has no timeIn and a record with status Present or Late has one.
TimeInMatchesStatus ==
  \A i \in 1..Len(attendance) :
    /\ attendance[i].status \in {"Absent", "Excused"}
         => attendance[i].timeIn = None
    /\ attendance[i].status \in {"Present", "Late"}
         => attendance[i].timeIn # None

\* ------------------------------- specification: bulk marking audit
\* time passes
Tick ==
  /\ clock < MaxTicks
  /\ clock' = clock + 1
  /\ UNCHANGED <<branches, users, courses, students, attendance, transactions,
                 budgets, tokens, omitUndefined, requests, resp>>

\* the superAdmin and the admin of the students' branch
BulkActors == {"u1", "u2"}

\* batches of one record
BulkSingles == [1..1 -> BulkRecords]

NextBulk ==
  \/ \E actor \in BulkActors, attendanceRecords \in BulkSingles :
       BulkAttendance(actor, attendanceRecords)
  \/ Tick

SpecBulk == InitAtt /\ [][NextBulk]_vars

\* index of the last record of a batch whose (student, course, date) is the
\* document's, or 0
LastHit(records, doc) ==
  LET hits == {k \in 1..Len(records) :
                 /\ records[k].student = doc.student
                 /\ records[k].course = doc.course
                 /\ NewDate(records[k].date) = doc.date}
  IN IF hits = {} THEN 0 ELSE CHOOSE k \in hits : \A h \in hits : h <= k

Clause(field, op, value) == [field |-> field, op |-> op, value |-> value]

EmptyFilter == [activeOnly |-> FALSE, and |-> {}, hasOr |-> FALSE, or |-> {}]

\* { isActive: true }
ActiveFilter == [EmptyFilter EXCEPT !.activeOnly = TRUE]

\* filter[field] = condition (an earlier condition on the field is replaced)
withCondition(filter, field, op, value) ==
  [filter EXCEPT !.and = {c \in @ : c.field # field}
                          \cup {Clause(field, op, value)}]

\* filter[field] = value
withField(filter, field, value) == withCondition(filter, field, "eq", value)

\* filter.$or = clauses (an earlier $or is replaced)
withOr(filter, clauses) == [filter EXCEPT !.hasOr = TRUE, !.or = clauses]

\* { $regex: pattern, $options: 'i' } for a one-character pattern
regexTest(text, pattern) ==
  \E i \in 1..Len(text) : toUpperCase(text[i]) = toUpperCase(pattern)

holds(doc, clause) ==
  IF clause.op = "eq" THEN doc[clause.field] = clause.value
  ELSE IF clause.op = "ne" THEN doc[clause.field] # clause.value
  ELSE regexTest(doc[clause.field], clause.value)

matches(doc, filter) ==
  /\ filter.activeOnly => doc.isActive
  /\ \A c \in filter.and : holds(doc, c)
  /\ filter.hasOr => \E c \in filter.or : holds(doc, c)

\* Model.find(filter) on a collection id -> document: the documents returned,
\* each with its id and its branch
find(collection, filter) ==
  {[id |-> id, branch |-> collection[id].branch] :
     id \in {x \in DOMAIN collection : matches(collection[x], filter)}}

ListOutcome(kind, returned) == [kind |-> kind, returned |-> returned]

\* a request's query string: [search, status, role, branchId], None = absent;
\* of the fields a search looks into, the ones the documents here carry
\* GET /api/students
listStudents(actor, query) ==
  LET me == users[actor]
      q0 == ActiveFilter
      q1 == IF query.search # None
            THEN withOr(q0, {Clause("studentId", "regex", query.search)})
            ELSE q0
      q2 == IF me.role = "superAdmin"
            THEN IF query.branchId # None
                 THEN withField(q1, "branch", query.branchId) ELSE q1
            ELSE withField(q1, "branch", me.branch)
  IN ListOutcome("ok", find(students, q2))

\* GET /api/courses
listCoursesSearchLast(actor, query) ==
  LET me == users[actor]
      q0 == ActiveFilter
      q1 == IF me.role = "superAdmin"
            THEN IF query.branchId # None
                 THEN withField(q0, "branch", query.branchId) ELSE q0
            ELSE withOr(q0, {Clause("branch", "eq", me.branch),
                             Clause("branch", "eq", "all")})
      q2 == IF query.search # None
            THEN withOr(q1, {Clause("title", "regex", query.search)})
            ELSE q1
  IN ListOutcome("ok", find(courses, q2))

listCourses(actor, query) ==
  LET me == users[actor]
      q0 == ActiveFilter
      q1 == IF query.search # None
            THEN withOr(q0, {Clause("title", "regex", query.search)})
            ELSE q0
      q2 == IF me.role = "superAdmin"
            THEN IF query.branchId # None
                 THEN withField(q1, "branch", query.branchId) ELSE q1
            ELSE withOr(q1, {Clause("branch", "eq", me.branch),
                             Clause("branch", "eq", "all")})
  IN ListOutcome("ok", find(courses, q2))

\* Attendance.getFilteredAttendance as GET /api/attendance calls it
listAttendance(actor, query) ==
  LET me == users[actor]
      q0 == ActiveFilter
      q1 == IF query.status # None
            THEN withField(q0, "status", query.status) ELSE q0
      q2 == IF me.role = "superAdmin"
            THEN IF query.branchId # None
                 THEN withField(q1, "branch", query.branchId) ELSE q1
            ELSE withField(q1, "branch", me.branch)
  IN ListOutcome("ok", find(attendance, q2))

\* GET /api/transactions
listTransactions(actor, query) ==
  LET me == users[actor]
      q0 == ActiveFilter
      q1 == IF me.role # "superAdmin" THEN withField(q0, "branch", me.branch)
            ELSE IF query.branchId # None
            THEN withField(q0, "branch", query.branchId) ELSE q0
      q2 == IF query.status # None
            THEN withField(q1, "status", query.status) ELSE q1
      q3 == IF query.search # None
            THEN withOr(q2, {Clause("category", "regex", query.search)})
            ELSE q2
  IN IF ~requireRole(actor, {"superAdmin", "admin"})
     THEN ListOutcome("AccessDenied", {})
     ELSE ListOutcome("ok", find(transactions, q3))

\* GET /api/budgets
listBudgets(actor, query) ==
  LET me == users[actor]
      q0 == ActiveFilter
      q1 == IF me.role # "superAdmin" THEN withField(q0, "branch", me.branch)
            ELSE IF query.branchId # None
            THEN withField(q0, "branch", query.branchId) ELSE q0
      q2 == IF query.status # None
            THEN withField(q1, "status", query.status) ELSE q1
      q3 == IF query.search # None
            THEN withOr(q2, {Clause("category", "regex", query.search)})
            ELSE q2
  IN IF ~requireRole(actor, {"superAdmin", "admin"})
     THEN ListOutcome("AccessDenied", {})
     ELSE ListOutcome("ok", find(budgets, q3))

\* the User collection: the documents that exist, with their full names
fullName(u) ==
  CASE u = "u1" -> <<"r", "o", "o", "t">>
    [] u = "u2" -> <<"a", "d", "a">>
    [] u = "u3" -> <<"D", "a", "n">>
    [] OTHER -> <<"e", "v", "e">>

userCollection ==
  [u \in {x \in UserIds : users[x].exists} |->
     [fullName |-> fullName(u), role |-> users[u].role,
      branch |-> users[u].branch, isActive |-> users[u].isActive]]

\* GET /api/users
listUsers(actor, query) ==
  LET me == users[actor]
      q0 == EmptyFilter
      q1 == IF query.search # None
            THEN withOr(q0, {Clause("fullName", "regex", query.search)})
            ELSE q0
      q2 == IF query.role # None
            THEN withField(q1, "role", query.role) ELSE q1
      q3 == IF me.role = "superAdmin"
            THEN IF query.branchId # None
                 THEN withField(q2, "branch", query.branchId) ELSE q2
            ELSE IF me.role = "admin" THEN withField(q2, "branch", me.branch)
            ELSE q2
  IN IF ~requireRole(actor, {"superAdmin", "admin"})
     THEN ListOutcome("AccessDenied", {})
     ELSE ListOutcome("ok", find(userCollection, q3))

\* GET /api/users/branch-users; a role filter sent by a non-superAdmin
\* caller becomes { $and: [...] } on a string path, which the query is
\* rejected for
listBranchUsers(actor, query) ==
  LET me == users[actor]
      q0 == ActiveFilter
      q1 == IF me.role = "superAdmin" THEN q0
            ELSE withCondition(withField(q0, "branch", me.branch),
                               "role", "ne", "superAdmin")
      q2 == IF query.search # None
            THEN withOr(q1, {Clause("fullName", "regex", query.search)})
            ELSE q1
      q3 == IF query.role # None
            THEN withField(q2, "role", query.role) ELSE q2
  IN IF query.role # None /\ me.role # "superAdmin"
     THEN ListOutcome("ServerError", {})
     ELSE ListOutcome("ok", find(userCollection, q3))

\* GET /api/users/branch/:branchId with User.findByBranch
listUsersByBranch(actor, branchId) ==
  LET me == users[actor] IN
  IF me.role # "superAdmin" /\ me.branch # branchId
  THEN ListOutcome("AccessDenied", {})
  ELSE ListOutcome("ok",
         find(userCollection, withField(ActiveFilter, "branch", branchId)))

\* GET /api/attendance/students/:courseId: the students offered for marking
listCourseStudents(actor, courseId) ==
  LET me == users[actor]
      q0 == withField(ActiveFilter, "course", courseId)
      q1 == IF me.branch # None THEN withField(q0, "branch", me.branch) ELSE q0
  IN IF courseMissing(courseId) \/ ~courses[courseId].isActive
     THEN ListOutcome("NotFound", {})
     ELSE IF me.branch # None /\ courses[courseId].branch # "all"
             /\ courses[courseId].branch # me.branch
     THEN ListOutcome("AccessDenied", {})
     ELSE ListOutcome("ok", find(students, q1))

\* ------------------------------------------- single-record operations
CategoryFood == <<"f", "o", "o", "d">>
CategoryData == <<"d", "a", "t", "a">>

\* the day the requests are served on
Today == 1

RECURSIVE totalSpent(_, _)
\* $group: { totalSpent: { $sum: '$amount' } } over the matched transactions
totalSpent(txs, ids) ==
  IF ids = {} THEN 0
  ELSE LET id == CHOOSE x \in ids : TRUE
       IN txs[id].amount + totalSpent(txs, ids \ {id})

\* budgetSchema.methods.updateSpentAmount: the saved document. The pipeline
\* is sent uncast, so a populated this.branch matches a stored branch only
\* when it is serialised as its id (branchAs = "id")
updateSpentAmount(budget, txs, branchAs) ==
  LET matched == {id \in DOMAIN txs :
                    /\ branchAs = "id"
                    /\ txs[id].branch = budget.branch
                    /\ txs[id].category = budget.category
                    /\ txs[id].type = "expense"
                    /\ txs[id].status = "completed"
                    /\ txs[id].date >= budget.startDate
                    /\ txs[id].date <= budget.endDate
                    /\ txs[id].isActive}
      spent == totalSpent(txs, matched)
  IN [budget EXCEPT
        !.spent = spent,
        !.status = IF spent >= budget.allocated THEN "exceeded"
                   ELSE IF Today > budget.endDate THEN "completed"
                   ELSE "active"]

\* Model.findOne(matchQuery) of the transaction and budget routes, with
\* matchQuery = { _id: id, isActive: true } and, for a caller who is not
\* superAdmin, branch: the caller's branch: is there such a document
foundInScope(collection, actor, id) ==
  /\ id \in DOMAIN collection
  /\ collection[id].isActive
  /\ users[actor].role # "superAdmin"
       => collection[id].branch = users[actor].branch

RecordOutcome(txs, bgs, kind) ==
  [transactions |-> txs, budgets |-> bgs, kind |-> kind]

\* GET /api/students/:id
getStudent(actor, id) ==
  IF studentMissing(id) \/ ~students[id].isActive THEN "NotFound"
  ELSE IF users[actor].role # "superAdmin"
          /\ students[id].branch # users[actor].branch
  THEN "AccessDenied"
  ELSE "ok"

\* GET /api/transactions/:id
getTransaction(actor, id) ==
  IF ~requireRole(actor, {"superAdmin", "admin"})
  THEN RecordOutcome(transactions, budgets, "AccessDenied")
  ELSE IF ~foundInScope(transactions, actor, id)
  THEN RecordOutcome(transactions, budgets, "NotFound")
  ELSE RecordOutcome(transactions, budgets, "ok")

\* PUT /api/transactions/:id, body = [status]
updateTransaction(actor, id, body) ==
  IF ~requireRole(actor, {"superAdmin", "admin"})
  THEN RecordOutcome(transactions, budgets, "AccessDenied")
  ELSE IF ~foundInScope(transactions, actor, id)
  THEN RecordOutcome(transactions, budgets, "NotFound")
  ELSE RecordOutcome([transactions EXCEPT ![id].status = body.status],
                     budgets, "ok")

\* DELETE /api/transactions/:id
deleteTransaction(actor, id) ==
  IF ~requireRole(actor, {"superAdmin", "admin"})
  THEN RecordOutcome(transactions, budgets, "AccessDenied")
  ELSE IF ~foundInScope(transactions, actor, id)
  THEN RecordOutcome(transactions, budgets, "NotFound")
  ELSE RecordOutcome([transactions EXCEPT ![id].isActive = FALSE],
                     budgets, "ok")

\* GET /api/budgets/:id
getBudget(actor, id, branchAs) ==
  IF ~requireRole(actor, {"superAdmin", "admin"})
  THEN RecordOutcome(transactions, budgets, "AccessDenied")
  ELSE IF ~foundInScope(budgets, actor, id)
  THEN RecordOutcome(transactions, budgets, "NotFound")
  ELSE RecordOutcome(transactions,
         [budgets EXCEPT
            ![id] = updateSpentAmount(budgets[id], transactions, branchAs)],
         "ok")

\* DELETE /api/budgets/:id
deleteBudget(actor, id) ==
  IF ~requireRole(actor, {"superAdmin"})
  THEN RecordOutcome(transactions, budgets, "AccessDenied")
  ELSE IF ~foundInScope(budgets, actor, id)
  THEN RecordOutcome(transactions, budgets, "NotFound")
  ELSE RecordOutcome(transactions, [budgets EXCEPT ![id].isActive = FALSE],
                     "ok")

\* ------------------------------------------------------------ actions
ListResp(op, r, actor, query) ==
  [op |-> op, kind |-> r.kind, key |-> None, actor |-> actor,
   query |-> query, returned |-> r.returned]

ListStudents(actor, query) ==
  /\ authenticateToken(actor) = "ok"
  /\ resp' = ListResp("listStudents", listStudents(actor, query), actor, query)
  /\ UNCHANGED <<branches, users, courses, students, attendance, transactions,
                 budgets, tokens, clock, omitUndefined, requests>>

ListCourses(actor, query) ==
  /\ authenticateToken(actor) = "ok"
  /\ resp' = ListResp("listCourses", listCourses(actor, query), actor, query)
  /\ UNCHANGED <<branches, users, courses, students, attendance, transactions,
                 budgets, tokens, clock, omitUndefined, requests>>

ListAttendance(actor, query) ==
  /\ authenticateToken(actor) = "ok"
  /\ resp' = ListResp("listAttendance", listAttendance(actor, query), actor,
                      query)
  /\ UNCHANGED <<branches, users, courses, students, attendance, transactions,
                 budgets, tokens, clock, omitUndefined, requests>>

ListTransactions(actor, query) ==
  /\ authenticateToken(actor) = "ok"
  /\ resp' = ListResp("listTransactions", listTransactions(actor, query),
                      actor, query)
  /\ UNCHANGED <<branches, users, courses, students, attendance, transactions,
                 budgets, tokens, clock, omitUndefined, requests>>

ListBudgets(actor, query) ==
  /\ authenticateToken(actor) = "ok"
  /\ resp' = ListResp("listBudgets", listBudgets(actor, query), actor, query)
  /\ UNCHANGED <<branches, users, courses, students, attendance, transactions,
                 budgets, tokens, clock, omitUndefined, requests>>

ListUsers(actor, query) ==
  /\ authenticateToken(actor) = "ok"
  /\ resp' = ListResp("listUsers", listUsers(actor, query), actor, query)
  /\ UNCHANGED <<branches, users, courses, students, attendance, transactions,
                 budgets, tokens, clock, omitUndefined, requests>>

ListBranchUsers(actor, query) ==
  /\ authenticateToken(actor) = "ok"
  /\ resp' = ListResp("listBranchUsers", listBranchUsers(actor, query), actor,
                      query)
  /\ UNCHANGED <<branches, users, courses, students, attendance, transactions,
                 budgets, tokens, clock, omitUndefined, requests>>

ListUsersByBranch(actor, branchId) ==
  /\ authenticateToken(actor) = "ok"
  /\ resp' = ListResp("listUsersByBranch", listUsersByBranch(actor, branchId),
                      actor, [branchId |-> branchId])
  /\ UNCHANGED <<branches, users, courses, students, attendance, transactions,
                 budgets, tokens, clock, omitUndefined, requests>>

ListCourseStudents(actor, courseId) ==
  /\ authenticateToken(actor) = "ok"
  /\ resp' = ListResp("listCourseStudents",
                      listCourseStudents(actor, courseId), actor,
                      [courseId |-> courseId])
  /\ UNCHANGED <<branches, users, courses, students, attendance, transactions,
                 budgets, tokens, clock, omitUndefined, requests>>

\* the answer to a request on one record: the caller, the collection and
\* the id the request named
RecordResp(op, kind, actor, coll, id) ==
  [op |-> op, kind |-> kind, key |-> None, actor |-> actor, coll |-> coll,
   id |-> id]

GetStudent(actor, id) ==
  /\ authenticateToken(actor) = "ok"
  /\ resp' = RecordResp("getStudent", getStudent(actor, id), actor,
                        "students", id)
  /\ UNCHANGED <<branches, users, courses, students, attendance, transactions,
                 budgets, tokens, clock, omitUndefined, requests>>

GetTransaction(actor, id) ==
  /\ authenticateToken(actor) = "ok"
  /\ \E r \in {getTransaction(actor, id)} :
       /\ transactions' = r.transactions
       /\ budgets' = r.budgets
       /\ resp' = RecordResp("getTransaction", r.kind, actor, "transactions", id)
  /\ UNCHANGED <<branches, users, courses, students, attendance, tokens,
                 clock, omitUndefined, requests>>

UpdateTransaction(actor, id, body) ==
  /\ authenticateToken(actor) = "ok"
  /\ \E r \in {updateTransaction(actor, id, body)} :
       /\ transactions' = r.transactions
       /\ budgets' = r.budgets
       /\ resp' = RecordResp("updateTransaction", r.kind, actor,
                             "transactions", id)
  /\ UNCHANGED <<branches, users, courses, students, attendance, tokens,
                 clock, omitUndefined, requests>>

DeleteTransaction(actor, id) ==
  /\ authenticateToken(actor) = "ok"
  /\ \E r \in {deleteTransaction(actor, id)} :
       /\ transactions' = r.transactions
       /\ budgets' = r.budgets
       /\ resp' = RecordResp("deleteTransaction", r.kind, actor,
                             "transactions", id)
  /\ UNCHANGED <<branches, users, courses, students, attendance, tokens,
                 clock, omitUndefined, requests>>

GetBudget(actor, id, branchAs) ==
  /\ authenticateToken(actor) = "ok"
  /\ \E r \in {getBudget(actor, id, branchAs)} :
       /\ transactions' = r.transactions
       /\ budgets' = r.budgets
       /\ resp' = RecordResp("getBudget", r.kind, actor, "budgets", id)
  /\ UNCHANGED <<branches, users, courses, students, attendance, tokens,
                 clock, omitUndefined, requests>>

DeleteBudget(actor, id) ==
  /\ authenticateToken(actor) = "ok"
  /\ \E r \in {deleteBudget(actor, id)} :
       /\ transactions' = r.transactions
       /\ budgets' = r.budgets
       /\ resp' = RecordResp("deleteBudget", r.kind, actor, "budgets", id)
  /\ UNCHANGED <<branches, users, courses, students, attendance, tokens,
                 clock, omitUndefined, requests>>

\* ------------------------------------------- transaction references
\* the reference `${prefix}-${YYYYMM}-${tail}`; the month is counted from
\* the month the clock starts in
Reference(prefix, month, tail) == [prefix |-> prefix, month |-> month, tail |-> tail]

\* no reference: the key is absent
NoReference == Reference(None, 0, <<>>)

\* date.getFullYear() and date.getMonth() of new Date()
yearMonth(now) == now

\* a < b as strings
RECURSIVE stringLess(_, _)
stringLess(a, b) ==
  IF b = <<>> THEN FALSE
  ELSE IF a = <<>> THEN TRUE
  ELSE IF Head(a) = Head(b) THEN stringLess(Tail(a), Tail(b))
  ELSE charCode(Head(a)) < charCode(Head(b))

\* the leading decimal digits of s
RECURSIVE leadingDigits(_)
leadingDigits(s) ==
  IF s = <<>> \/ ~isDigit(Head(s)) THEN <<>>
  ELSE <<Head(s)>> \o leadingDigits(Tail(s))

\* the value of a string of decimal digits
RECURSIVE digitsValue(_)
digitsValue(s) ==
  IF s = <<>> THEN 0
  ELSE 10 * digitsValue(SubSeq(s, 1, Len(s) - 1))
       + (CHOOSE d \in 0..9 : DigitSeq[d + 1] = s[Len(s)])

\* parseInt(s): [isNaN, value]
parseInt(s) ==
  IF leadingDigits(s) = <<>> THEN [isNaN |-> TRUE, value |-> 0]
  ELSE [isNaN |-> FALSE, value |-> digitsValue(leadingDigits(s))]

\* findOne({ reference: /^prefix-YYYYMM-/, branch }).sort({ reference: -1 }):
\* index of the document found, or 0
lastTransaction(txs, prefix, month, branch) ==
  LET found == {i \in 1..Len(txs) :
                  /\ txs[i].reference # NoReference
                  /\ txs[i].reference.prefix = prefix
                  /\ txs[i].reference.month = month
                  /\ txs[i].branch = branch}
  IN IF found = {} THEN 0
     ELSE CHOOSE i \in found :
            \A j \in found : ~stringLess(txs[i].reference.tail,
                                         txs[j].reference.tail)

\* transactionSchema.pre('save'): the reference generated for a new document
\* that has none
generateReference(txs, type, branch, now) ==
  LET typePrefix == IF type = "income" THEN "IN" ELSE "EX"
      last == lastTransaction(txs, typePrefix, yearMonth(now), branch)
      lastSequence == parseInt(txs[last].reference.tail)
      sequence == IF last # 0 /\ ~lastSequence.isNaN
                  THEN lastSequence.value + 1 ELSE 1
  IN Reference(typePrefix, yearMonth(now), padStart(String(sequence), 4))

TxOutcome(txs, kind) == [transactions |-> txs, kind |-> kind]

\* the branch POST /api/transactions creates the transaction in
targetBranchId(actor, body) ==
  IF users[actor].role # "superAdmin" THEN users[actor].branch ELSE body.branch

\* POST /api/transactions, body = [type, reference, branch]; the body names
\* no student and no course
createTransaction(actor, body) ==
  LET target == targetBranchId(actor, body)
      reference == IF body.reference = NoReference
                   THEN generateReference(transactions, body.type, target, clock)
                   ELSE body.reference
  IN
  IF ~requireRole(actor, {"superAdmin", "admin"})
  THEN TxOutcome(transactions, "AccessDenied")
  ELSE IF users[actor].role # "superAdmin" /\ body.branch # None
          /\ body.branch # target
  THEN TxOutcome(transactions, "AccessDenied")
  ELSE IF target # None /\ (branchMissing(target) \/ ~branches[target].isActive)
  THEN TxOutcome(transactions, "InvalidReference")
  ELSE IF target = None THEN TxOutcome(transactions, "ServerError")
  ELSE IF \E i \in 1..Len(transactions) : transactions[i].reference = reference
  THEN TxOutcome(transactions, "DuplicateKey")
  ELSE TxOutcome(Append(transactions,
         [branch |-> target, category |-> CategoryFood, type |-> body.type,
          status |-> "pending", amount |-> 1, date |-> clock,
          reference |-> reference, createdAt |-> clock, isActive |-> TRUE]),
       "ok")

CreateTransaction(actor, body) ==
  /\ authenticateToken(actor) = "ok"
  /\ Len(transactions) < MaxTxRecs
  /\ \E r \in {createTransaction(actor, body)} :
       /\ transactions' = r.transactions
       /\ resp' = [op |-> "createTransaction", kind |-> r.kind, key |-> None,
                   actor |-> actor, body |-> body]
  /\ UNCHANGED <<branches, users, courses, students, attendance, budgets,
                 tokens, clock, omitUndefined, requests>>

\* ------------------------------------- specification: branch scoping
\* an attendance document as POST /api/attendance leaves it
SeedAttendance(student, course, branch, markedBy) ==
  preSave([student |-> student, course |-> course, date |-> 1,
           branch |-> branch, status |-> "Present", timeIn |-> "09:00",
           notes |-> "n", markedBy |-> markedBy, lastModifiedBy |-> None,
           createdAt |-> 0, isActive |-> TRUE])

\* a completed expense as POST /api/transactions leaves it
SeedTransaction(branch, category, reference) ==
  [branch |-> branch, category |-> category, type |-> "expense",
   status |-> "completed", amount |-> 1, date |-> 1, reference |-> reference,
   createdAt |-> 0, isActive |-> TRUE]

\* a budget as POST /api/budgets leaves it
SeedBudget(branch, category) ==
  [branch |-> branch, category |-> category, allocated |-> 1, spent |-> 0,
   status |-> "active", startDate |-> 1, endDate |-> 2, isActive |-> TRUE]

\* every collection holds a record of branch b1 and one of branch b2; course
\* c2 is offered to all branches
InitScope ==
  /\ branches = InitBranches
  /\ users = InitUsers
  /\ courses = [c \in CourseIds |->
                  CASE c = "c1" -> [NewCourse(TitleWebDev, "b1", 1, TRUE)
                                      EXCEPT !.currentEnrolled = 1]
                    [] c = "c2" -> NewCourse(TitleWebDesign, "all", 1, TRUE)
                    [] OTHER -> [NewCourse(Title3dArt, "b2", 1, TRUE)
                                   EXCEPT !.currentEnrolled = 1]]
  /\ students = <<SeedStudent(TitleWebDev, "c1", "b1", "e1"),
                  SeedStudent(Title3dArt, "c3", "b2", "e2")>>
  /\ attendance = <<SeedAttendance(1, "c1", "b1", "u2"),
                    SeedAttendance(2, "c3", "b2", "u3")>>
  /\ transactions = <<SeedTransaction("b1", CategoryFood,
                                      generateReference(<<>>, "expense", "b1", 0)),
                      SeedTransaction("b2", CategoryData,
                                      Reference("EX", 0, <<"b", "2">>))>>
  /\ budgets = <<SeedBudget("b1", CategoryFood), SeedBudget("b2", CategoryData)>>
  /\ tokens = {}
  /\ clock = 0
  /\ omitUndefined = TRUE
  /\ requests = NoRequests
  /\ resp = NoResp

ScopeActors == {"u1", "u2", "u3", "u4"}

\* query strings sent to the record lists and to the user lists
ScopeQueries ==
  [search : {None, "d"}, status : {None, "Present"}, role : {None},
   branchId : BranchIds \cup {None}]

UserQueries ==
  [search : {None, "d"}, status : {None}, role : {None, "admin"},
   branchId : BranchIds \cup {None}]

NextScope ==
  \/ \E actor \in ScopeActors, query \in ScopeQueries : ListStudents(actor, query)
  \/ \E actor \in ScopeActors, query \in ScopeQueries : ListCourses(actor, query)
  \/ \E actor \in ScopeActors, query \in ScopeQueries : ListAttendance(actor, query)
  \/ \E actor \in ScopeActors, query \in ScopeQueries :
       ListTransactions(actor, query)
  \/ \E actor \in ScopeActors, query \in ScopeQueries : ListBudgets(actor, query)
  \/ \E actor \in ScopeActors, query \in UserQueries : ListUsers(actor, query)
  \/ \E actor \in ScopeActors, query \in UserQueries :
       ListBranchUsers(actor, query)
  \/ \E actor \in ScopeActors, branchId \in BranchIds :
       ListUsersByBranch(actor, branchId)
  \/ \E actor \in ScopeActors, courseId \in CourseIds :
       ListCourseStudents(actor, courseId)
  \/ \E actor \in ScopeActors, id \in 1..2 : DeleteAttendance(actor, id)

SpecScope == InitScope /\ [][NextScope]_vars

ListOps ==
  {"listStudents", "listCourses", "listAttendance", "listTransactions",
   "listBudgets", "listUsers", "listBranchUsers", "listUsersByBranch",
   "listCourseStudents"}

\* C3: whatever query parameters a caller who is not superAdmin sends, every
\* record a list operation returns belongs to the caller's own branch, except
\* that a course list may also hold courses whose branch is "all".
ListStaysInOwnBranch ==
  (resp.op \in ListOps /\ users[resp.actor].role # "superAdmin") =>
    \A r \in resp.returned :
      \/ r.branch = users[resp.actor].branch
      \/ resp.op = "listCourses" /\ r.branch = "all"

\* an admin of b1 searched the courses for a text that a course of b2
\* matches, asked for branch b2, and got the course of b1 and the one
\* offered to all
CourseListKeptToOwnBranch ==
  /\ resp.op = "listCourses" /\ resp.kind = "ok" /\ resp.actor = "u2"
  /\ resp.query.search = "d" /\ resp.query.branchId = "b2"
  /\ courses["c3"].isActive /\ courses["c3"].branch = "b2"
  /\ regexTest(courses["c3"].title, resp.query.search)
  /\ {r.id : r \in resp.returned} = {"c1", "c2"}

\* ------------------------------ specification: single-record requests
RecordActors == {"u2", "u3", "u4"}

TransactionUpdates == [status : {"cancelled"}]

RecordAttendanceUpdates == [status : {"Absent"}, timeIn : {None}, notes : {None}]

NextRecord ==
  \/ \E actor \in RecordActors, id \in 1..2 : GetStudent(actor, id)
  \/ \E actor \in RecordActors, id \in 1..2 : GetTransaction(actor, id)
  \/ \E actor \in RecordActors, id \in 1..2, body \in TransactionUpdates :
       UpdateTransaction(actor, id, body)
  \/ \E actor \in RecordActors, id \in 1..2 : DeleteTransaction(actor, id)
  \/ \E actor \in RecordActors, id \in 1..2, branchAs \in {"id", "document"} :
       GetBudget(actor, id, branchAs)
  \/ \E actor \in RecordActors, id \in 1..2 : DeleteBudget(actor, id)
  \/ \E actor \in RecordActors, id \in 1..2, body \in RecordAttendanceUpdates,
        branchToString \in {"id", "inspect"} :
       UpdateAttendance(actor, id, body, branchToString)
  \/ \E actor \in RecordActors, id \in 1..2 : DeleteAttendance(actor, id)

SpecRecord == InitScope /\ [][NextRecord]_vars

RecordOps ==
  {"getStudent", "getTransaction", "updateTransaction", "deleteTransaction",
   "getBudget", "deleteBudget", "updateAttendance", "deleteAttendance"}

\* the request r named an active record of a branch other than its caller's,
\* and the caller is not superAdmin
NamesOtherBranchRecord(r) ==
  LET collection == CASE r.coll = "students" -> students
                      [] r.coll = "attendance" -> attendance
                      [] r.coll = "transactions" -> transactions
                      [] OTHER -> budgets
  IN /\ r.id \in DOMAIN collection
     /\ collection[r.id].isActive
     /\ users[r.actor].role # "superAdmin"
     /\ collection[r.id].branch # users[r.actor].branch

\* C4: a get, update or delete that a caller who is not superAdmin sends for
\* an active record of another branch is answered AccessDenied and changes
\* no record.
OtherBranchRecordAccessDenied ==
  [][(resp'.op \in RecordOps /\ NamesOtherBranchRecord(resp')) =>
       /\ resp'.kind = "AccessDenied"
       /\ UNCHANGED <<students, attendance, transactions, budgets>>]_vars

\* --------------------------- specification: transaction references
InitRef ==
  /\ InitIdle
  /\ courses = [c \in CourseIds |->
                  CASE c = "c1" -> NewCourse(TitleWebDev, "b1", 1, TRUE)
                    [] c = "c2" -> NewCourse(TitleWebDesign, "all", 1, TRUE)
                    [] OTHER -> NewCourse(Title3dArt, "b2", 1, TRUE)]
  /\ students = <<>>

\* the superAdmin, the admin of b1 and the moderator of b2
RefActors == {"u1", "u2", "u3"}

\* bodies without a reference or with the reference IN-<first month>-9999
RefBodies ==
  [type : {"income", "expense"},
   reference : {NoReference, Reference("IN", 0, <<"9", "9", "9", "9">>)},
   branch : BranchIds \cup {None}]

NextRef ==
  \/ \E actor \in RefActors, body \in RefBodies : CreateTransaction(actor, body)
  \/ Tick

SpecRef == InitRef /\ [][NextRef]_vars

\* the request r is a creation without a reference that passes the role,
\* branch and validation checks
CreatesWithoutReference(r) ==
  /\ r.op = "createTransaction" /\ r.body.reference = NoReference
  /\ users[r.actor].role \in {"superAdmin", "admin"}
  /\ users[r.actor].role # "superAdmin"
       => r.body.branch \in {None, users[r.actor].branch}
  /\ targetBranchId(r.actor, r.body) \in BranchIds
  /\ branches[targetBranchId(r.actor, r.body)].isActive

\* the highest sequence among the references prefix-month-NNNN of a branch,
\* 0 when there is none
RECURSIVE highestSequence(_, _, _, _)
highestSequence(txs, prefix, month, branch) ==
  IF txs = <<>> THEN 0
  ELSE LET rest == highestSequence(Tail(txs), prefix, month, branch)
           ref == Head(txs).reference
           mine == IF /\ ref # NoReference
                      /\ ref.prefix = prefix /\ ref.month = month
                      /\ Head(txs).branch = branch
                      /\ ~parseInt(ref.tail).isNaN
                   THEN parseInt(ref.tail).value ELSE 0
       IN IF mine > rest THEN mine ELSE rest

\* C12: a transaction created without a reference receives the prefix of
\* its type (IN for income, EX for expense), the current month and the
\* highest existing sequence of its (branch, type, month) plus one, 0001 for
\* the first.
ReferenceFollowsHighestSequence ==
  [][(CreatesWithoutReference(resp') /\ clock' = clock) =>
       LET prefix == IF resp'.body.type = "income" THEN "IN" ELSE "EX"
           target == targetBranchId(resp'.actor, resp'.body)
           highest == highestSequence(transactions, prefix, clock, target)
       IN /\ resp'.kind = "ok"
          /\ Len(transactions') = Len(transactions) + 1
          /\ transactions'[Len(transactions')].reference =
               Reference(prefix, clock, padStart(String(highest + 1), 4))]_vars

\* C13: in a branch that has no transaction of the type created in the
\* current month, a creation without a reference succeeds with sequence
\* 0001, whatever the other branches hold.
FirstOfBranchGetsSequenceOne ==
  [][(/\ CreatesWithoutReference(resp') /\ clock' = clock
      /\ \A i \in 1..Len(transactions) :
           ~ /\ transactions[i].branch = targetBranchId(resp'.actor, resp'.body)
             /\ transactions[i].type = resp'.body.type
             /\ yearMonth(transactions[i].createdAt) = yearMonth(clock)) =>
       /\ resp'.kind = "ok"
       /\ Len(transactions') = Len(transactions) + 1
       /\ transactions'[Len(transactions')].reference.tail
            = <<"0", "0", "0", "1">>]_vars

\* ------------------------------- specification: retried creations
\* the last request was a creation refused because the generated studentId
\* is taken
Collided ==
  resp.op = "createStudent" /\ resp.kind = "DuplicateKey" /\ resp.key = "studentId"

\* the client sends the refused creation again: a creation for the same
\* course that passes the same checks, up to the generation of the studentId
RetryCreateStudent ==
  /\ Collided
  /\ \E uid \in UserIds, body \in StudentBodies :
       /\ body.course = resp.course
       /\ CreateReachesSeatCheck(uid, body)
       /\ ~emailInUse(students, body.email, 0)
       /\ CreateStudent(uid, body)

\* while a refused creation is being retried no other request is served
NextRetry ==
  \/ ~Collided /\ NextEnroll
  \/ RetryCreateStudent

SpecRetry == InitEnroll /\ [][NextRetry]_vars /\ WF_vars(RetryCreateStudent)

\* C14: a creation refused with DuplicateKey on studentId succeeds when it
\* is retried with no other request in between.
CollisionIsTransient ==
  Collided ~> (resp.op = "createStudent" /\ resp.kind = "ok")

\* ------------------------------------------- budgets: create and update
MaxBudgetRecs == 2

\* the $or of the overlap queries of POST and PUT /api/budgets: a stored
\* window that holds start, or holds end, or lies inside [start, end]
windowsOverlap(doc, start, end) ==
  \/ doc.startDate <= start /\ doc.endDate >= start
  \/ doc.startDate <= end /\ doc.endDate >= end
  \/ doc.startDate >= start /\ doc.endDate <= end

\* Budget.findOne({ _id: { $ne: self }, branch, category, isActive: true,
\* $or: [...] }): is there such a budget (self = 0 for a new budget)
overlappingBudget(bgs, self, branch, category, start, end) ==
  \E i \in DOMAIN bgs :
    /\ i # self
    /\ bgs[i].branch = branch
    /\ bgs[i].category = category
    /\ bgs[i].isActive
    /\ windowsOverlap(bgs[i], start, end)

\* the unique index { branch, category, startDate, endDate } over the
\* budgets with isActive: true: does saving doc as document self collide
budgetWindowTaken(bgs, self, doc) ==
  /\ doc.isActive
  /\ \E i \in DOMAIN bgs :
       /\ i # self
       /\ bgs[i].isActive
       /\ bgs[i].branch = doc.branch
       /\ bgs[i].category = doc.category
       /\ bgs[i].startDate = doc.startDate
       /\ bgs[i].endDate = doc.endDate

\* POST /api/budgets, body = [category, startDate, endDate, branch]
createBudget(actor, body) ==
  IF ~requireRole(actor, {"superAdmin"})
  THEN RecordOutcome(transactions, budgets, "AccessDenied")
  ELSE IF body.branch # None
          /\ (body.branch \notin DOMAIN branches
                \/ ~branches[body.branch].isActive)
  THEN RecordOutcome(transactions, budgets, "InvalidReference")
  ELSE IF body.endDate <= body.startDate
  THEN RecordOutcome(transactions, budgets, "InvalidDateRange")
  ELSE IF overlappingBudget(budgets, 0, body.branch, body.category,
                            body.startDate, body.endDate)
  THEN RecordOutcome(transactions, budgets, "DuplicateKey")
  ELSE IF body.branch = None
  THEN RecordOutcome(transactions, budgets, "ServerError")
  ELSE LET budget == [branch |-> body.branch, category |-> body.category,
                      allocated |-> 1, spent |-> 0, status |-> "active",
                      startDate |-> body.startDate,
                      endDate |-> body.endDate, isActive |-> TRUE]
       IN IF budgetWindowTaken(budgets, 0, budget)
          THEN RecordOutcome(transactions, budgets, "DuplicateKey")
          ELSE RecordOutcome(transactions,
                 Append(budgets,
                        updateSpentAmount(budget, transactions, "id")),
                 "ok")

\* PUT /api/budgets/:id, body = [category, startDate, endDate]; a key the
\* body leaves out is the empty string, or the date 0
updateBudget(actor, id, body) ==
  IF ~requireRole(actor, {"superAdmin"})
  THEN RecordOutcome(transactions, budgets, "AccessDenied")
  ELSE IF ~foundInScope(budgets, actor, id)
  THEN RecordOutcome(transactions, budgets, "NotFound")
  ELSE LET budget == budgets[id]
           datesGiven == body.startDate # 0 \/ body.endDate # 0
           start == IF body.startDate # 0 THEN body.startDate
                    ELSE budget.startDate
           end == IF body.endDate # 0 THEN body.endDate ELSE budget.endDate
           checkCategory == IF body.category # <<>> THEN body.category
                            ELSE budget.category
           saved == [budget EXCEPT !.category = checkCategory,
                                   !.startDate = start, !.endDate = end]
       IN IF datesGiven /\ end <= start
          THEN RecordOutcome(transactions, budgets, "InvalidDateRange")
          ELSE IF datesGiven
                  /\ overlappingBudget(budgets, id, budget.branch,
                                       checkCategory, start, end)
          THEN RecordOutcome(transactions, budgets, "DuplicateKey")
          ELSE IF budgetWindowTaken(budgets, id, saved)
          THEN RecordOutcome(transactions, budgets, "DuplicateKey")
          ELSE RecordOutcome(transactions,
                 [budgets EXCEPT
                    ![id] = updateSpentAmount(saved, transactions, "id")],
                 "ok")

\* POST /api/budgets/:id/refresh
refreshBudget(actor, id) ==
  IF ~requireRole(actor, {"superAdmin", "admin"})
  THEN RecordOutcome(transactions, budgets, "AccessDenied")
  ELSE IF ~foundInScope(budgets, actor, id)
  THEN RecordOutcome(transactions, budgets, "NotFound")
  ELSE RecordOutcome(transactions,
         [budgets EXCEPT
            ![id] = updateSpentAmount(budgets[id], transactions, "id")],
         "ok")

CreateBudget(actor, body) ==
  /\ authenticateToken(actor) = "ok"
  /\ Len(budgets) < MaxBudgetRecs
  /\ \E r \in {createBudget(actor, body)} :
       /\ transactions' = r.transactions
       /\ budgets' = r.budgets
       /\ resp' = RecordResp("createBudget", r.kind, actor, "budgets",
                             Len(r.budgets))
  /\ UNCHANGED <<branches, users, courses, students, attendance, tokens,
                 clock, omitUndefined, requests>>

UpdateBudget(actor, id, body) ==
  /\ authenticateToken(actor) = "ok"
  /\ \E r \in {updateBudget(actor, id, body)} :
       /\ transactions' = r.transactions
       /\ budgets' = r.budgets
       /\ resp' = RecordResp("updateBudget", r.kind, actor, "budgets", id)
  /\ UNCHANGED <<branches, users, courses, students, attendance, tokens,
                 clock, omitUndefined, requests>>

RefreshBudget(actor, id) ==
  /\ authenticateToken(actor) = "ok"
  /\ \E r \in {refreshBudget(actor, id)} :
       /\ transactions' = r.transactions
       /\ budgets' = r.budgets
       /\ resp' = RecordResp("refreshBudget", r.kind, actor, "budgets", id)
  /\ UNCHANGED <<branches, users, courses, students, attendance, tokens,
                 clock, omitUndefined, requests>>

\* ------------------------------------------- specification: budgets
\* branch b1 has spent 1 on food on day 1 and has a food budget for the
\* days 1 to 2 that counts it
InitBudget ==
  /\ branches = InitBranches
  /\ users = InitUsers
  /\ courses = [c \in CourseIds |-> NewCourse(<<>>, "all", 1, FALSE)]
  /\ students = <<>>
  /\ attendance = <<>>
  /\ transactions = <<SeedTransaction("b1", CategoryFood,
                        generateReference(<<>>, "expense", "b1", 0))>>
  /\ budgets = <<updateSpentAmount(
                   [SeedBudget("b1", CategoryFood) EXCEPT !.allocated = 2],
                   transactions, "id")>>
  /\ tokens = {}
  /\ clock = 0
  /\ omitUndefined = TRUE
  /\ requests = NoRequests
  /\ resp = NoResp

BudgetActors == {"u1", "u2"}

BudgetWindows == {<<1, 2>>, <<2, 3>>, <<2, 1>>}

BudgetBodies ==
  {[category |-> c, startDate |-> w[1], endDate |-> w[2], branch |-> b] :
     c \in {CategoryFood, CategoryData}, w \in BudgetWindows,
     b \in {"b1", None}}

\* the bodies of PUT /api/budgets/:id: a new category, a new window, or both
BudgetUpdates ==
  {[category |-> c, startDate |-> w[1], endDate |-> w[2]] :
     c \in {<<>>, CategoryFood, CategoryData},
     w \in BudgetWindows \cup {<<0, 0>>}}

NextBudget ==
  \/ \E actor \in BudgetActors, body \in BudgetBodies :
       CreateBudget(actor, body)
  \/ \E actor \in BudgetActors, id \in 1..MaxBudgetRecs,
        body \in BudgetUpdates :
       UpdateBudget(actor, id, body)
  \/ \E actor \in BudgetActors, id \in 1..MaxBudgetRecs :
       DeleteBudget(actor, id)
  \/ \E actor \in BudgetActors, id \in 1..MaxBudgetRecs :
       RefreshBudget(actor, id)
  \/ \E actor \in BudgetActors, id \in 1..MaxBudgetRecs :
       GetBudget(actor, id, "document")
  \/ \E actor \in BudgetActors, id \in 1..1, body \in TransactionUpdates :
       UpdateTransaction(actor, id, body)

SpecBudget == InitBudget /\ [][NextBudget]_vars

\* the request ran updateSpentAmount on the budget it names
SpentCall(r) == r.op \in {"getBudget", "refreshBudget"} /\ r.kind = "ok"

\* C15: two requests in a row that each run updateSpentAmount on the same
\* budget, with no transaction written in between, leave the spent amount
\* the first one left.
SecondSpentCallKeepsSpent ==
  [][(SpentCall(resp) /\ SpentCall(resp') /\ resp'.id = resp.id)
       => budgets'[resp.id].spent = budgets[resp.id].spent]_vars

\* C16: no two active budgets of one branch and one category have windows
\* that intersect.
NoOverlappingActiveBudgets ==
  \A i, j \in DOMAIN budgets :
    (/\ i # j
     /\ budgets[i].isActive /\ budgets[j].isActive
     /\ budgets[i].branch = budgets[j].branch
     /\ budgets[i].category = budgets[j].category)
      => \/ budgets[i].endDate < budgets[j].startDate
         \/ budgets[j].endDate < budgets[i].startDate

\* ------------------------------------------- branches: update and delete
\* User.countDocuments({ branch: id, isActive: true })
activeUsersCount(id) ==
  Cardinality({u \in UserIds : /\ users[u].exists
                               /\ users[u].branch = id
                               /\ users[u].isActive})

\* PUT /api/branches/:id, body = [hasIsActive, isActive]; the body carries
\* no name
updateBranch(actor, id, body) ==
  IF ~requireRole(actor, {"superAdmin"})
  THEN BranchOutcome(branches, "AccessDenied")
  ELSE IF branchMissing(id) THEN BranchOutcome(branches, "NotFound")
  ELSE IF body.hasIsActive
  THEN BranchOutcome([branches EXCEPT ![id].isActive = body.isActive], "ok")
  ELSE BranchOutcome(branches, "ok")

\* DELETE /api/branches/:id
deleteBranch(actor, id) ==
  IF ~requireRole(actor, {"superAdmin"})
  THEN BranchOutcome(branches, "AccessDenied")
  ELSE IF branchMissing(id) THEN BranchOutcome(branches, "NotFound")
  ELSE IF activeUsersCount(id) > 0
  THEN BranchOutcome(branches, "ResourceInUse")
  ELSE BranchOutcome([branches EXCEPT ![id].isActive = FALSE], "ok")

\* POST /api/branches/:id/restore
restoreBranch(actor, id) ==
  IF ~requireRole(actor, {"superAdmin"})
  THEN BranchOutcome(branches, "AccessDenied")
  ELSE IF branchMissing(id) THEN BranchOutcome(branches, "NotFound")
  ELSE IF branches[id].isActive
  THEN BranchOutcome(branches, "ValidationFailed")
  ELSE BranchOutcome([branches EXCEPT ![id].isActive = TRUE], "ok")

UpdateBranch(actor, id, body) ==
  /\ authenticateToken(actor) = "ok"
  /\ \E r \in {updateBranch(actor, id, body)} :
       /\ branches' = r.branches
       /\ resp' = UserResp("updateBranch", r.kind, actor)
  /\ UNCHANGED <<users, courses, students, attendance, transactions,
                 budgets, tokens, clock, omitUndefined, requests>>

DeleteBranch(actor, id) ==
  /\ authenticateToken(actor) = "ok"
  /\ \E r \in {deleteBranch(actor, id)} :
       /\ branches' = r.branches
       /\ resp' = UserResp("deleteBranch", r.kind, actor)
  /\ UNCHANGED <<users, courses, students, attendance, transactions,
                 budgets, tokens, clock, omitUndefined, requests>>

RestoreBranch(actor, id) ==
  /\ authenticateToken(actor) = "ok"
  /\ \E r \in {restoreBranch(actor, id)} :
       /\ branches' = r.branches
       /\ resp' = UserResp("restoreBranch", r.kind, actor)
  /\ UNCHANGED <<users, courses, students, attendance, transactions,
                 budgets, tokens, clock, omitUndefined, requests>>

\* ------------------------------------------- specification: branches
BranchUpdates ==
  [hasIsActive : {TRUE}, isActive : BOOLEAN]
    \cup [hasIsActive : {FALSE}, isActive : {FALSE}]

NextBranch ==
  \/ \E actor \in UserIds, id \in BranchIds, body \in BranchUpdates :
       UpdateBranch(actor, id, body)
  \/ \E actor \in UserIds, id \in BranchIds : ToggleBranchStatus(actor, id)
  \/ \E actor \in UserIds, id \in BranchIds : DeleteBranch(actor, id)
  \/ \E actor \in UserIds, id \in BranchIds : RestoreBranch(actor, id)
  \/ \E actor \in UserIds, id \in UserIds : DeleteUser(actor, id)
  \/ \E actor \in UserIds, id \in UserIds : RestoreUser(actor, id)

\* branch b1 has the active users u2 and u4, branch b2 the active user u3
SpecBranch == InitScope /\ [][NextBranch]_vars

\* C17: no request takes a branch from active to inactive while the branch
\* has an active user.
BranchWithActiveUsersStaysActive ==
  [][\A id \in BranchIds :
       (branches[id].isActive /\ ~branches'[id].isActive)
         => activeUsersCount(id) = 0]_vars

\* C19: a user-management request (delete or update) sent by a user leaves
\* that user's own account active.
OwnAccountStaysActive ==
  [][(resp'.op \in {"deleteUser", "updateUser"} /\ users[resp'.actor].isActive)
       => users'[resp'.actor].isActive]_vars

\* ------------------------------------------- courses: create to restore
TitleWebDevCaps == <<"W","e","b"," ","D","e","v">>

CourseOutcome(co, kind) == [courses |-> co, kind |-> kind]

\* new RegExp(`^${title}$`, 'i').test(text), for a title of letters, digits
\* and spaces: the same characters, whatever their case
titleMatches(text, title) ==
  /\ Len(text) = Len(title)
  /\ \A i \in 1..Len(title) : toUpperCase(text[i]) = toUpperCase(title[i])

\* Course.findOne({ title: { $regex }, branch, isActive: true,
\* _id: { $ne: self } }): is there such a course (self = None on creation)
existingCourse(title, branch, self) ==
  \E c \in CourseIds :
    /\ c # self
    /\ ~courseMissing(c)
    /\ titleMatches(courses[c].title, title)
    /\ courses[c].branch = branch
    /\ courses[c].isActive

\* POST /api/courses, body = [title, branch]; the new document takes the
\* slot id
createCourse(actor, id, body) ==
  IF ~requireRole(actor, {"superAdmin"})
  THEN CourseOutcome(courses, "AccessDenied")
  ELSE IF body.branch # "all"
          /\ (branchMissing(body.branch) \/ ~branches[body.branch].isActive)
  THEN CourseOutcome(courses, "InvalidReference")
  ELSE IF existingCourse(body.title, body.branch, None)
  THEN CourseOutcome(courses, "DuplicateKey")
  ELSE CourseOutcome(
         [courses EXCEPT ![id] = NewCourse(body.title, body.branch, 1, TRUE)],
         "ok")

\* PUT /api/courses/:id, body = [title, branch, maxStudents]; a key the body
\* leaves out is the empty string, None, or -1 for maxStudents. The
\* validation of maxStudents skips a falsy value, which the schema's
\* minimum then refuses at course.save()
updateCourse(actor, id, body) ==
  IF ~requireRole(actor, {"superAdmin"})
  THEN CourseOutcome(courses, "AccessDenied")
  ELSE IF courseMissing(id) \/ ~courses[id].isActive
  THEN CourseOutcome(courses, "NotFound")
  ELSE LET course == courses[id]
           branch == IF body.branch # None THEN body.branch ELSE course.branch
           title == IF body.title # <<>> THEN body.title ELSE course.title
       IN IF body.branch # None /\ body.branch # course.branch
             /\ body.branch # "all"
             /\ (branchMissing(body.branch) \/ ~branches[body.branch].isActive)
          THEN CourseOutcome(courses, "InvalidReference")
          ELSE IF body.title # <<>> /\ body.title # course.title
                  /\ existingCourse(body.title, branch, id)
          THEN CourseOutcome(courses, "DuplicateKey")
          ELSE IF body.maxStudents # -1 /\ body.maxStudents \notin 1..100
          THEN CourseOutcome(courses, "ValidationError")
          ELSE CourseOutcome(
                 [courses EXCEPT
                    ![id].title = title,
                    ![id].branch = branch,
                    ![id].maxStudents = IF body.maxStudents # -1
                                        THEN body.maxStudents ELSE @], "ok")

\* DELETE /api/courses/:id without the test of currentEnrolled
deleteCourseWhileEnrolled(actor, id) ==
  IF ~requireRole(actor, {"superAdmin"})
  THEN CourseOutcome(courses, "AccessDenied")
  ELSE IF courseMissing(id) \/ ~courses[id].isActive
  THEN CourseOutcome(courses, "NotFound")
  ELSE CourseOutcome([courses EXCEPT ![id].isActive = FALSE], "ok")

\* DELETE /api/courses/:id
deleteCourse(actor, id) ==
  IF ~requireRole(actor, {"superAdmin"})
  THEN CourseOutcome(courses, "AccessDenied")
  ELSE IF courseMissing(id) \/ ~courses[id].isActive
  THEN CourseOutcome(courses, "NotFound")
  ELSE IF courses[id].currentEnrolled > 0
  THEN CourseOutcome(courses, "ResourceInUse")
  ELSE CourseOutcome([courses EXCEPT ![id].isActive = FALSE], "ok")

\* POST /api/courses/:id/restore
restoreCourse(actor, id) ==
  IF ~requireRole(actor, {"superAdmin"})
  THEN CourseOutcome(courses, "AccessDenied")
  ELSE IF courseMissing(id) THEN CourseOutcome(courses, "NotFound")
  ELSE IF courses[id].isActive
  THEN CourseOutcome(courses, "ValidationFailed")
  ELSE CourseOutcome([courses EXCEPT ![id].isActive = TRUE], "ok")

\* the answer to a request on one course
CourseResp(op, kind, actor, id) ==
  [op |-> op, kind |-> kind, key |-> None, actor |-> actor, id |-> id]

CreateCourse(actor, body) ==
  /\ authenticateToken(actor) = "ok"
  /\ \E c \in CourseIds : courseMissing(c)
  /\ LET id == CHOOSE c \in CourseIds : courseMissing(c)
     IN \E r \in {createCourse(actor, id, body)} :
          /\ courses' = r.courses
          /\ resp' = CourseResp("createCourse", r.kind, actor, id)
  /\ UNCHANGED <<branches, users, students, attendance, transactions,
                 budgets, tokens, clock, omitUndefined, requests>>

UpdateCourse(actor, id, body) ==
  /\ authenticateToken(actor) = "ok"
  /\ \E r \in {updateCourse(actor, id, body)} :
       /\ courses' = r.courses
       /\ resp' = CourseResp("updateCourse", r.kind, actor, id)
  /\ UNCHANGED <<branches, users, students, attendance, transactions,
                 budgets, tokens, clock, omitUndefined, requests>>

DeleteCourse(actor, id) ==
  /\ authenticateToken(actor) = "ok"
  /\ \E r \in {deleteCourse(actor, id)} :
       /\ courses' = r.courses
       /\ resp' = CourseResp("deleteCourse", r.kind, actor, id)
  /\ UNCHANGED <<branches, users, students, attendance, transactions,
                 budgets, tokens, clock, omitUndefined, requests>>

RestoreCourse(actor, id) ==
  /\ authenticateToken(actor) = "ok"
  /\ \E r \in {restoreCourse(actor, id)} :
       /\ courses' = r.courses
       /\ resp' = CourseResp("restoreCourse", r.kind, actor, id)
  /\ UNCHANGED <<branches, users, students, attendance, transactions,
                 budgets, tokens, clock, omitUndefined, requests>>

\* ------------------------------------------- specification: courses
\* the seeded branches and users, and no course yet
InitCourse ==
  /\ InitIdle
  /\ courses = [c \in CourseIds |-> NoCourse]
  /\ students = <<>>

CourseActors == {"u1", "u2"}

CourseBodies == [title : {TitleWebDev, TitleWebDevCaps}, branch : {"b1", "all"}]

CourseUpdates ==
  [title : {<<>>, TitleWebDevCaps}, branch : {None, "all"}, maxStudents : {-1}]

\* the students are created in the first course, in branch b1, with one
\* email address
CourseStudentBodies == [course : {"c1"}, branch : {"b1"}, email : {"e1"}]

NextCourse ==
  \/ \E actor \in CourseActors, body \in CourseBodies :
       CreateCourse(actor, body)
  \/ \E actor \in CourseActors, id \in CourseIds, body \in CourseUpdates :
       UpdateCourse(actor, id, body)
  \/ \E actor \in CourseActors, id \in CourseIds : DeleteCourse(actor, id)
  \/ \E actor \in CourseActors, id \in CourseIds : RestoreCourse(actor, id)
  \/ \E body \in CourseStudentBodies : CreateStudent("u1", body)
  \/ \E sid \in 1..MaxStudentRecs : DeleteStudent("u1", sid)

SpecCourse == InitCourse /\ [][NextCourse]_vars

\* the active students of a course
activeStudentsOf(st, id) ==
  {i \in 1..Len(st) : st[i].course = id /\ st[i].isActive}

\* C18: the superAdmin's soft-deletion of an active course is refused and
\* leaves the course active while the course has an active student, and
\* succeeds once it has none.
CourseDeletionWaitsForStudents ==
  [][(/\ resp'.op = "deleteCourse"
      /\ resp'.actor = "u1"
      /\ ~courseMissing(resp'.id)
      /\ courses[resp'.id].isActive)
       => IF activeStudentsOf(students, resp'.id) # {}
          THEN /\ resp'.kind = "ResourceInUse"
               /\ courses'[resp'.id].isActive
          ELSE /\ resp'.kind = "ok"
               /\ ~courses'[resp'.id].isActive]_vars

\* a course that was refused deletion while its student was active has been
\* soft-deleted after the student was
CourseDeletedAfterItsStudent ==
  /\ resp.op = "deleteCourse" /\ resp.kind = "ok"
  /\ \E i \in 1..Len(students) :
       students[i].course = resp.id /\ ~students[i].isActive

\* C20: no two active courses of the same branch scope have the same title,
\* compared without regard to case.
NoTwoActiveCoursesShareTitle ==
  \A c, d \in CourseIds :
    (/\ c # d
     /\ ~courseMissing(c) /\ ~courseMissing(d)
     /\ courses[c].isActive /\ courses[d].isActive
     /\ courses[c].branch = courses[d].branch)
      => ~titleMatches(courses[c].title, courses[d].title)

\* ------------------------------------------- student course changes
\* C21: a course change to a course that has no seat left is answered
\* CourseFull and leaves the student (course, studentId) and the counters of
\* the old and the new course as they were.
ChangeToFullCourseRejected ==
  [][(/\ resp'.op = "updateStudent"
      /\ resp'.acceptable
      /\ courses[resp'.course].currentEnrolled
           >= courses[resp'.course].maxStudents)
       => /\ resp'.kind = "CourseFull"
          /\ students' = students
          /\ courses' = courses]_vars

\* a course change was refused because the named course is full, while a
\* student of another course is enrolled
ChangeToFullCourseRefused ==
  /\ resp.op = "updateStudent" /\ resp.kind = "CourseFull"
  /\ resp.course \in CourseIds
  /\ courses[resp.course].currentEnrolled = courses[resp.course].maxStudents
  /\ \E i \in 1..Len(students) :
       /\ students[i].isActive
       /\ students[i].course # resp.course
       /\ courses[students[i].course].currentEnrolled > 0

\* C22: a student update that is answered with an error leaves the
\* currentEnrolled of every course as it was.
RejectedUpdateKeepsCounters ==
  [][(resp'.op = "updateStudent" /\ resp'.kind # "ok")
       => \A c \in CourseIds :
            courses'[c].currentEnrolled = courses[c].currentEnrolled]_vars

\* the course is active and offered to the branch
courseInScope(course, branch) ==
  course.isActive /\ course.branch \in {"all", branch}

\* C23: a student creation or course change that is accepted puts the
\* student into a course that is active and offered to the student's
\* branch, whoever the caller is.
AcceptedCourseIsInScope ==
  [][(resp'.op \in {"createStudent", "updateStudent"} /\ resp'.kind = "ok")
       => \A i \in 1..Len(students') :
            (i > Len(students) \/ students'[i].course # students[i].course)
              => courseInScope(courses[students'[i].course],
                               students'[i].branch)]_vars

\* ------------------------------- POST /api/students, one await at a time
\* student.save() of the route: the insert the unique index on studentId
\* lets through, with the handler's answer to error 11000
insertStudentIfSeatLeft(st, co, request) ==
  IF isFull(co[request.body.course])
  THEN [students |-> st, kind |-> "CourseFull", key |-> None]
  ELSE IF studentIdTaken(st, request.studentId, 0)
  THEN [students |-> st, kind |-> "DuplicateKey", key |-> "studentId"]
  ELSE [students |->
          Append(st, [studentId |-> request.studentId,
                      email |-> request.body.email,
                      course |-> request.body.course,
                      branch |-> IF users[request.uid].role # "superAdmin"
                                 THEN users[request.uid].branch
                                 ELSE request.body.branch,
                      isActive |-> TRUE]),
        kind |-> "ok", key |-> None]

insertStudent(st, co, request) ==
  IF studentIdTaken(st, request.studentId, 0)
  THEN [students |-> st, kind |-> "DuplicateKey", key |-> "studentId"]
  ELSE [students |->
          Append(st, [studentId |-> request.studentId,
                      email |-> request.body.email,
                      course |-> request.body.course,
                      branch |-> IF users[request.uid].role # "superAdmin"
                                 THEN users[request.uid].branch
                                 ELSE request.body.branch,
                      isActive |-> TRUE]),
        kind |-> "ok", key |-> None]

\* the answer of a request followed step by step
RaceResp(request, kind, key) ==
  StudentResp("createStudent", [kind |-> kind, key |-> key],
              request.body.course, TRUE)

\* the request arrives: token, role, branch, Course.findById and isFull() on
\* the course document that was read. A request that fails one of them is
\* answered as createStudent answers it, with nothing written
ReceiveCreate(p, uid, body) ==
  /\ requests[p].pc = "idle"
  /\ authenticateToken(uid) = "ok"
  /\ Len(students) < MaxStudentRecs
  /\ IF CreateReachesSeatCheck(uid, body) /\ ~isFull(courses[body.course])
     THEN /\ requests' = [requests EXCEPT
                            ![p] = [IdleRequest EXCEPT
                                      !.pc = "received", !.uid = uid,
                                      !.body = body,
                                      !.course = courses[body.course]]]
          /\ UNCHANGED resp
     ELSE /\ resp' = StudentResp("createStudent", createStudent(uid, body),
                                 body.course,
                                 CreateReachesSeatCheck(uid, body))
          /\ UNCHANGED requests
  /\ UNCHANGED <<branches, users, courses, students, attendance,
                 transactions, budgets, tokens, clock, omitUndefined>>

\* Student.findOne({ email, isActive: true })
CheckEmail(p) ==
  /\ requests[p].pc = "received"
  /\ IF emailInUse(students, requests[p].body.email, 0)
     THEN /\ requests' = [requests EXCEPT ![p].pc = "done",
                                          ![p].kind = "DuplicateKey",
                                          ![p].key = "email"]
          /\ resp' = RaceResp(requests[p], "DuplicateKey", "email")
     ELSE /\ requests' = [requests EXCEPT ![p].pc = "emailFree"]
          /\ UNCHANGED resp
  /\ UNCHANGED <<branches, users, courses, students, attendance,
                 transactions, budgets, tokens, clock, omitUndefined>>

\* Student.generateStudentId(courseId): it reads the course again
GenerateId(p) ==
  /\ requests[p].pc = "emailFree"
  /\ requests' = [requests EXCEPT
                    ![p].pc = "generated",
                    ![p].studentId =
                       generateStudentId(courses[requests[p].body.course])]
  /\ UNCHANGED <<branches, users, courses, students, attendance,
                 transactions, budgets, tokens, clock, omitUndefined, resp>>

\* student.save()
SaveStudent(p) ==
  /\ requests[p].pc = "generated"
  /\ \E r \in {insertStudent(students, courses, requests[p])} :
       /\ students' = r.students
       /\ IF r.kind = "ok"
          THEN /\ requests' = [requests EXCEPT ![p].pc = "saved"]
               /\ UNCHANGED resp
          ELSE /\ requests' = [requests EXCEPT ![p].pc = "done",
                                               ![p].kind = r.kind,
                                               ![p].key = r.key]
               /\ resp' = RaceResp(requests[p], r.kind, r.key)
  /\ UNCHANGED <<branches, users, courses, attendance, transactions,
                 budgets, tokens, clock, omitUndefined>>

\* course.enrollStudent() on the course document the request read when it
\* arrived; saving it writes the counter it changed
EnrollSaved(p) ==
  /\ requests[p].pc = "saved"
  /\ \E enrolled \in {enrollStudent(requests[p].course)} :
       IF enrolled.thrown
       THEN /\ requests' = [requests EXCEPT ![p].pc = "done",
                                            ![p].kind = "ServerError"]
            /\ resp' = RaceResp(requests[p], "ServerError", None)
            /\ UNCHANGED courses
       ELSE /\ courses' = [courses EXCEPT
                             ![requests[p].body.course].currentEnrolled =
                                enrolled.doc.currentEnrolled]
            /\ requests' = [requests EXCEPT ![p].pc = "done",
                                            ![p].kind = "ok"]
            /\ resp' = RaceResp(requests[p], "ok", None)
  /\ UNCHANGED <<branches, users, students, attendance, transactions,
                 budgets, tokens, clock, omitUndefined>>

\* ------------------------------- specification: interleaved creations
RaceActors == {"u1", "u2", "u4"}

RaceBodies == [course : {"c1", "c2"}, branch : {"b1"}, email : Emails]

\* each connection carries one creation; the two are interleaved freely
NextRace ==
  \/ \E p \in Procs, uid \in RaceActors, body \in RaceBodies :
       ReceiveCreate(p, uid, body)
  \/ \E p \in Procs : CheckEmail(p)
  \/ \E p \in Procs : GenerateId(p)
  \/ \E p \in Procs : SaveStudent(p)
  \/ \E p \in Procs : EnrollSaved(p)

SpecRace == InitEnroll /\ [][NextRace]_vars

\* both creations are over, they named the same course and computed the
\* same studentId
SameIdRaceOver(p, q) ==
  /\ p # q
  /\ requests[p].pc = "done" /\ requests[q].pc = "done"
  /\ requests[p].body.course = requests[q].body.course
  /\ requests[p].studentId # <<>>
  /\ requests[p].studentId = requests[q].studentId

\* C24: no two student records share a studentId; of two interleaved
\* creations for one course that computed the same studentId one is stored
\* and answered ok, the other is answered DuplicateKey and stored nowhere,
\* and the course's currentEnrolled is one more than the value the
\* studentId was computed from.
SameIdRaceStoresOne ==
  /\ \A i, j \in 1..Len(students) :
       i # j => students[i].studentId # students[j].studentId
  /\ \A p, q \in Procs :
       SameIdRaceOver(p, q) =>
         LET c == requests[p].body.course
         IN /\ {requests[p].kind, requests[q].kind} = {"ok", "DuplicateKey"}
            /\ Cardinality({i \in 1..Len(students) :
                              students[i].studentId = requests[p].studentId})
                 = 1
            /\ courses[c].currentEnrolled > 0
            /\ generateStudentId(
                 [courses[c] EXCEPT !.currentEnrolled = @ - 1])
                 = requests[p].studentId

\* two creations for one course computed one studentId and both are over
SameIdRaceHappened ==
  \E p, q \in Procs :
    /\ SameIdRaceOver(p, q)
    /\ requests[p].kind = "ok"
    /\ requests[q].kind = "DuplicateKey" /\ requests[q].key = "studentId"

\* C25: a creation that passed isFull() when it arrived is stored and
\* answered ok also when the course has been filled in the meantime, so
\* that two creations for the last seat both succeed and the course holds
\* more active students than maxStudents.
LastSeatGivenTwice ==
  [][\A p \in Procs :
       /\ (/\ requests[p].pc = "generated"
           /\ requests'[p].pc # "generated"
           /\ isFull(courses[requests[p].body.course])
           /\ ~studentIdTaken(students, requests[p].studentId, 0))
            => /\ requests'[p].pc = "saved"
               /\ Len(students') = Len(students) + 1
               /\ students'[Len(students')].isActive
               /\ students'[Len(students')].course = requests[p].body.course
       /\ (requests[p].pc = "saved" /\ requests'[p].pc = "done")
            => requests'[p].kind = "ok"]_vars

\* both creations took the last seat of a course: both were answered ok
\* and the course has more active students than maxStudents
CourseOverbooked ==
  \E p, q \in Procs :
    /\ p # q
    /\ requests[p].pc = "done" /\ requests[p].kind = "ok"
    /\ requests[q].pc = "done" /\ requests[q].kind = "ok"
    /\ requests[p].body.course = requests[q].body.course
    /\ requests[p].course.currentEnrolled + 1 = requests[p].course.maxStudents
    /\ requests[q].course.currentEnrolled + 1 = requests[q].course.maxStudents
    /\ Cardinality(activeStudentsOf(students, requests[p].body.course))
         > courses[requests[p].body.course].maxStudents

\* ------------------------------- specification: studentId generation
TitleSevenWords == <<"a"," ","b"," ","c"," ","d"," ","e"," ","f"," ","g">>
TitleNoLetters == <<"1","0","1"," ","2","0","2">>
TitleMixedWords == <<"Q","A"," ","2","n","d"," ","l","a","b">>

IdTitles == {TitleWebDev, TitleWebDesign, Title3dArt, TitleSevenWords,
             TitleNoLetters, TitleMixedWords}

\* the enrolment counts at which an id is generated: one-, two- and
\* three-digit sequence numbers (maxStudents is at most 100)
IdCounts == {0, 8, 9, 98, 99}

\* course c1 has one of the titles, one of the counts and a free seat
InitIdGen ==
  /\ InitIdle
  /\ \E title \in IdTitles, count \in IdCounts :
       courses = [c \in CourseIds |->
                    IF c = "c1"
                    THEN [NewCourse(title, "all", count + 1, TRUE)
                            EXCEPT !.currentEnrolled = count]
                    ELSE NoCourse]
  /\ students = <<>>

IdGenBodies == [course : {"c1"}, branch : {"b1"}, email : {"e1"}]

NextIdGen ==
  \/ \E p \in Procs, uid \in {"u1", "u2"}, body \in IdGenBodies :
       ReceiveCreate(p, uid, body)
  \/ \E p \in Procs : CheckEmail(p)
  \/ \E p \in Procs : GenerateId(p)

SpecIdGen == InitIdGen /\ [][NextIdGen]_vars

\* the positions of the title at which a word begins with a letter
letterWordStarts(title) ==
  {i \in 1..Len(title) :
     isAlpha(title[i]) /\ (i = 1 \/ title[i - 1] = " ")}

\* the studentId of the claim for a title and an enrolment count: prefix
\* and number, in the words of the claim
IsIdOf(id, title, count) ==
  LET starts == letterWordStarts(title)
      taken == {i \in starts :
                  Cardinality({j \in starts : j < i}) < 6}
      plen == IF starts = {} THEN 3 ELSE Cardinality(taken)
      number == SubSeq(id, plen + 1, Len(id))
  IN /\ Len(id) >= plen + 4
     /\ IF starts = {}
        THEN SubSeq(id, 1, 3) = <<"S", "T", "U">>
        ELSE \A i \in taken :
               id[Cardinality({j \in starts : j < i}) + 1]
                 = toUpperCase(title[i])
     /\ \A k \in 1..Len(number) : isDigit(number[k])
     /\ digitsValue(number) = count + 1
     /\ (Len(number) > 4 => number[1] # "0")

\* C26: the generated studentId is the upper-cased first letters of the
\* title's words that begin with a letter, at most 6 of them ("STU" when
\* there is none), followed by currentEnrolled + 1 padded with zeros to 4
\* digits.
StudentIdHasPrefixAndSequence ==
  \A p \in Procs :
    requests[p].pc = "generated" =>
      IsIdOf(requests[p].studentId,
             courses[requests[p].body.course].title,
             courses[requests[p].body.course].currentEnrolled)

\* an id was generated from a title of seven words for the 100th student
LongTitleIdGenerated ==
  \E p \in Procs :
    /\ requests[p].pc = "generated"
    /\ courses[requests[p].body.course].title = TitleSevenWords
    /\ courses[requests[p].body.course].currentEnrolled = 99
    /\ requests[p].studentId
         = <<"A", "B", "C", "D", "E", "F", "0", "1", "0", "0">>

\* the completed, active expenses of the budget's branch and category dated
\* within its window
expensesOf(budget, txs) ==
  {id \in DOMAIN txs :
     /\ txs[id].isActive
     /\ txs[id].status = "completed"
     /\ txs[id].type = "expense"
     /\ txs[id].branch = budget.branch
     /\ txs[id].category = budget.category
     /\ budget.startDate <= txs[id].date
     /\ txs[id].date <= budget.endDate}

\* C27: after a request has run updateSpentAmount on a budget, the budget's
\* spent is the sum of the amounts of its expenses, and its status is
\* exceeded when spent >= allocated, else completed when the window has
\* ended, else active.
SpentIsSumOfExpenses ==
  [][SpentCall(resp')
       => LET budget == budgets'[resp'.id]
              spent == totalSpent(transactions', expensesOf(budget, transactions'))
          IN /\ budget.spent = spent
             /\ budget.status = IF spent >= budget.allocated THEN "exceeded"
                                ELSE IF Today > budget.endDate THEN "completed"
                                ELSE "active"]_vars

\* ---------------------------------------------------------------------
\* specification: course capacity
\* ---------------------------------------------------------------------

\* updates that carry maxStudents only
CapacityUpdates ==
  [title : {<<>>}, branch : {None}, maxStudents : {-1} \cup 0..MaxSeats]

CapacityStudentBodies ==
  [course : {"c1", "c2"}, branch : {"b1"}, email : Emails]

NextCapacity ==
  \/ \E actor \in CourseActors, id \in CourseIds, body \in CapacityUpdates :
       UpdateCourse(actor, id, body)
  \/ \E body \in CapacityStudentBodies : CreateStudent("u1", body)
  \/ \E sid \in 1..MaxStudentRecs : DeleteStudent("u1", sid)

SpecCapacity == InitEnroll /\ [][NextCapacity]_vars

\* C28: a course whose currentEnrolled is at most its maxStudents is still
\* so after a course update, whether the update was accepted or rejected.
UpdateKeepsEnrolledWithinMax ==
  [][(/\ resp'.op = "updateCourse"
      /\ ~courseMissing(resp'.id)
      /\ courses[resp'.id].currentEnrolled <= courses[resp'.id].maxStudents)
       => courses'[resp'.id].currentEnrolled <= courses'[resp'.id].maxStudents]_vars

\* C29: between requests, after any sequence of student creations, updates
\* and deletions, the currentEnrolled of every course is the number of
\* active students whose course it is.
EnrolledCountsActiveStudents ==
  \A c \in CourseIds :
    courses[c].currentEnrolled = Cardinality(activeStudentsOf(students, c))

\* ---------------------------------------------------------------------
\* specification: marking after a deletion
\* ---------------------------------------------------------------------

RemarkBodies ==
  [student : {1, 2}, course : {"c1"}, date : {"2024-01-01"},
   status : {"Present", "Absent"}, timeIn : {None}, notes : {"n"}]

NextRemark ==
  \/ \E body \in RemarkBodies : MarkAttendance("u2", body)
  \/ \E attendanceRecords \in BulkSingles :
       BulkAttendance("u2", attendanceRecords)
  \/ \E id \in 1..MaxAttRecs : DeleteAttendance("u2", id)

SpecRemark == InitAtt /\ [][NextRemark]_vars

\* an active attendance document of the key with the status
activeRecordOf(att, student, course, date, status) ==
  \E i \in 1..Len(att) :
    /\ att[i].student = student /\ att[i].course = course
    /\ att[i].date = NewDate(date)
    /\ att[i].status = status
    /\ att[i].isActive

\* C30: after a single mark or a bulk upsert has answered with success, the
\* collection holds an active attendance record of the submitted (student,
\* course, date) with the submitted status, also when a record of that key
\* had been soft-deleted before.
MarkedRecordIsActive ==
  [][/\ \A body \in RemarkBodies :
          (MarkAttendance("u2", body) /\ resp'.kind = "ok")
            => activeRecordOf(attendance', body.student, body.course,
                              body.date, body.status)
     /\ (resp'.op = "bulkAttendance" /\ resp'.kind = "ok")
          => \A k \in 1..Len(resp'.records) :
               activeRecordOf(attendance', resp'.records[k].student,
                              resp'.records[k].course, resp'.records[k].date,
                              resp'.records[k].status)]_vars

====
